---- MODULE Spec2Model ----
(***************************************************************************)
(* Model of tax.py (federal Form 1040 / NY IT-201 calculation engine) and  *)
(* of the expected-value harness of test_tax.py.                           *)
(*                                                                         *)
(* Decimal amounts are integers counted in units of 1/Units dollar, so a   *)
(* whole-dollar amount is a multiple of Units.  Rates and percentages of   *)
(* the policy are fractions [num, den]; ratios quantized to four decimal   *)
(* places are integers counted in 1/RatioDen.                              *)
(***************************************************************************)
EXTENDS Integers, Sequences, FiniteSets, TLC

\* ---------------------------------------------------------------------
\* Bounds of the model
\* ---------------------------------------------------------------------

\* Units per dollar of every modelled amount (4: quarters of a dollar).
Units == 4

\* Longest list of facts added to the base facts of a fact collection.
MaxExtraFacts == 2

\* ---------------------------------------------------------------------
\* Decimal helpers
\* ---------------------------------------------------------------------

Dollars(n) == n * Units

Min2(a, b) == IF a <= b THEN a ELSE b

Max2(a, b) == IF a >= b THEN a ELSE b

\* n/d rounded to the nearest integer, an exact half away from zero
\* (decimal.ROUND_HALF_UP), for any non-zero d.
RoundHalfUp(n, d) ==
    LET nn == IF d < 0 THEN -n ELSE n
        dd == IF d < 0 THEN -d ELSE d
    IN IF nn >= 0 THEN (2 * nn + dd) \div (2 * dd)
       ELSE -((2 * (-nn) + dd) \div (2 * dd))

\* A faulty rounding: an exact half goes to the greater whole number, for
\* negative amounts toward zero.
round_to_dollars_half_to_greater(amount) ==
    Units * ((2 * amount + Units) \div (2 * Units))

\* round_to_dollars(amount): amount.quantize(Decimal('1'), ROUND_HALF_UP).
round_to_dollars(amount) == Units * RoundHalfUp(amount, Units)

\* round_to_dollars(amount * rate) for a rate [num, den].
RoundMulRate(amount, rate) ==
    Units * RoundHalfUp(amount * rate.num, rate.den * Units)

\* Denominator of a ratio quantized with Decimal('0.0001').
RatioDen == 10000

\* round_to_dollars(amount * ratio) for a ratio counted in 1/RatioDen.
RoundMulRatio(amount, ratio) ==
    Units * RoundHalfUp(amount * ratio, RatioDen * Units)

\* ---------------------------------------------------------------------
\* Results of calls that may raise
\* ---------------------------------------------------------------------

Ok(v) == [ok |-> TRUE, val |-> v, err |-> [type |-> "none"]]

Raise(e) == [ok |-> FALSE, val |-> 0, err |-> e]

\* ValueError("Expected at least 1 item for tag '<tag>', found 0")
MissingRequiredInput(tag) == [type |-> "MissingRequiredInput", tag |-> tag]

\* ValueError of a rate-schedule lookup that matched no row.
NoMatchingBracket(schedule, income) ==
    [type |-> "NoMatchingBracket", schedule |-> schedule, income |-> income]

\* AssertionError of _check_compute_line.
ComputeCheckMismatch(prefix, path, expected, actual) ==
    [type |-> "ComputeCheckMismatch", prefix |-> prefix, path |-> path,
     expected |-> expected, actual |-> actual]

\* ---------------------------------------------------------------------
\* Input index and tag aggregation
\* ---------------------------------------------------------------------

\* A fact: [Amount |-> units, Tags |-> sequence of tag strings, parses |->
\* whether Decimal(Amount) succeeds]; the Amount of a fact that does not
\* parse is not read.
\* A fact collection: [form |-> "dict", sources |-> sequence of
\* [source |-> name, items |-> sequence of facts]] or
\* [form |-> "list", items |-> sequence of facts].

RECURSIVE ConcatItems(_)
ConcatItems(sources) ==
    IF sources = <<>> THEN <<>>
    ELSE Head(sources).items \o ConcatItems(Tail(sources))

\* A faulty iteration: the sources of a mapping are gone through from the
\* last to the first.
items_iter_last_source_first(inputs) ==
    IF inputs.form = "dict"
    THEN ConcatItems([i \in DOMAIN inputs.sources |->
                          inputs.sources[Len(inputs.sources) + 1 - i]])
    ELSE inputs.items

\* items_iter of build_inputs_index: the facts in iteration order.
items_iter(inputs) ==
    IF inputs.form = "dict" THEN ConcatItems(inputs.sources) ELSE inputs.items

\* How many times a tag occurs in a fact's Tags list.
RECURSIVE TagCount(_, _)
TagCount(tags, tag) ==
    IF tags = <<>> THEN 0
    ELSE (IF Head(tags) = tag THEN 1 ELSE 0) + TagCount(Tail(tags), tag)

RECURSIVE Repeat(_, _)
Repeat(item, n) == IF n = 0 THEN <<>> ELSE <<item>> \o Repeat(item, n - 1)

\* by_tag[tag] after the loop of build_inputs_index: one entry per
\* occurrence of the tag, in iteration order.
RECURSIVE Bucket(_, _)
Bucket(items, tag) ==
    IF items = <<>> THEN <<>>
    ELSE Repeat(Head(items), TagCount(Head(items).Tags, tag))
         \o Bucket(Tail(items), tag)

TagsOfItems(items) ==
    UNION {{items[i].Tags[j] : j \in DOMAIN items[i].Tags} : i \in DOMAIN items}

build_inputs_index(inputs) ==
    LET items == items_iter(inputs)
    IN [by_tag |-> [tag \in TagsOfItems(items) |-> Bucket(items, tag)]]

\* index['by_tag'].get(tag, [])
BucketOf(index, tag) ==
    IF tag \in DOMAIN index.by_tag THEN index.by_tag[tag] ELSE <<>>

RECURSIVE SumAmounts(_, _)
SumAmounts(items, round_each) ==
    IF items = <<>> THEN 0
    ELSE (IF round_each THEN round_to_dollars(Head(items).Amount)
          ELSE Head(items).Amount)
         + SumAmounts(Tail(items), round_each)

\* A faulty tag_total: a required tag whose facts sum to zero is
\* reported missing.
tag_total_zero_is_missing(index, tag, required, round_each) ==
    LET items == BucketOf(index, tag)
    IN IF required /\ SumAmounts(items, round_each) = 0
       THEN Raise(MissingRequiredInput(tag))
       ELSE Ok(SumAmounts(items, round_each))

tag_total(index, tag, required, round_each) ==
    LET items == BucketOf(index, tag)
    IN IF required /\ items = <<>> THEN Raise(MissingRequiredInput(tag))
       ELSE IF \E i \in DOMAIN items : ~items[i].parses
       THEN \* decimal.InvalidOperation of Decimal(item['Amount'])
            Raise([type |-> "InvalidOperation"])
       ELSE Ok(SumAmounts(items, round_each))

\* tag_total(index, tag): the optional lookup of a tag all of whose facts
\* bear an Amount that parses, which cannot raise.
tag_sum(index, tag) == tag_total(index, tag, FALSE, FALSE).val

\* ---------------------------------------------------------------------
\* Federal line functions
\* ---------------------------------------------------------------------

federal_schedule_se_line_2_schedule_c_and_k1_profit(k1_box_14a_self_employment_earnings, k1_box_12_section_179_deduction) ==
    k1_box_14a_self_employment_earnings - k1_box_12_section_179_deduction

\* A faulty Schedule SE line 6: a loss gives earnings of zero.
federal_schedule_se_line_6_floored_at_zero(line_2_schedule_c_and_k1_profit, policy) ==
    IF line_2_schedule_c_and_k1_profit > 0
    THEN RoundMulRate(line_2_schedule_c_and_k1_profit,
                      policy.self_employment_tax.earnings_factor)
    ELSE 0

federal_schedule_se_line_6_total_se_earnings(line_2_schedule_c_and_k1_profit, policy) ==
    IF line_2_schedule_c_and_k1_profit > 0
    THEN RoundMulRate(line_2_schedule_c_and_k1_profit,
                      policy.self_employment_tax.earnings_factor)
    ELSE line_2_schedule_c_and_k1_profit

\* A faulty Schedule SE line 10: the earnings are not capped at the wage base.
federal_schedule_se_line_10_uncapped(line_6_self_employment_earnings, policy) ==
    RoundMulRate(line_6_self_employment_earnings,
                 policy.self_employment_tax.social_security_rate)

federal_schedule_se_line_10_social_security_tax(line_6_self_employment_earnings, policy) ==
    RoundMulRate(Min2(line_6_self_employment_earnings,
                      policy.self_employment_tax.social_security_wage_base),
                 policy.self_employment_tax.social_security_rate)

federal_schedule_se_line_11_medicare_tax(line_6_self_employment_earnings, policy) ==
    RoundMulRate(line_6_self_employment_earnings,
                 policy.self_employment_tax.medicare_rate)

federal_schedule_se_line_12_self_employment_tax(line_10_social_security_portion, line_11_medicare_portion) ==
    line_10_social_security_portion + line_11_medicare_portion

\* A faulty Form 8959: Part II is zero once the W-2 wages exceed the
\* threshold.
federal_form_8959_line_18_se_exempt_over_threshold(w2_medicare_wages, schedule_se_line_6_se_earnings, policy) ==
    LET rate == policy.additional_medicare_tax.rate
        threshold == policy.additional_medicare_tax.threshold
        w2_over_threshold == Max2(0, w2_medicare_wages - threshold)
        part1_tax == RoundMulRate(w2_over_threshold, rate)
        remaining_threshold == Max2(0, threshold - w2_medicare_wages)
        se_over_threshold ==
            Max2(0, schedule_se_line_6_se_earnings - remaining_threshold)
        part2_tax == IF w2_medicare_wages > threshold
                     THEN 0
                     ELSE RoundMulRate(se_over_threshold, rate)
    IN part1_tax + part2_tax

federal_form_8959_line_18_additional_medicare_tax(w2_medicare_wages, schedule_se_line_6_se_earnings, policy) ==
    LET rate == policy.additional_medicare_tax.rate
        threshold == policy.additional_medicare_tax.threshold
        w2_over_threshold == Max2(0, w2_medicare_wages - threshold)
        part1_tax == RoundMulRate(w2_over_threshold, rate)
        remaining_threshold == Max2(0, threshold - w2_medicare_wages)
        se_over_threshold ==
            Max2(0, schedule_se_line_6_se_earnings - remaining_threshold)
        part2_tax == RoundMulRate(se_over_threshold, rate)
        part3_tax == 0
    IN part1_tax + part2_tax + part3_tax

federal_form_8960_line_9b_state_local_foreign_income_tax(index, policy) ==
    LET total == tag_sum(index, "form_8960_line_9b_state_local_foreign_income_tax")
        cap == policy.state_local_tax_deduction.cap
    IN round_to_dollars(Min2(total, cap))

schedule_e_nonpassive_income_from_k1_components(index) ==
    tag_sum(index, "mctmt_base_ordinary_income")
    + tag_sum(index, "mctmt_base_guaranteed_payments")

federal_schedule_1_line_15_deductible_self_employment_tax(schedule_se_line_12_self_employment_tax) ==
    Units * RoundHalfUp(schedule_se_line_12_self_employment_tax, 2 * Units)

federal_form_8960_line_4b_adjustment_nonsection_1411(nonpassive_income, nonpassive_losses_allowed, section_179_deduction, additional_nonpassive_deductions) ==
    LET total_deductions == nonpassive_losses_allowed + section_179_deduction
                            + additional_nonpassive_deductions
        net_nonpassive == nonpassive_income - total_deductions
    IN -round_to_dollars(net_nonpassive)

federal_form_1040_line_11_adjusted_gross_income(line_9_total_income, line_10_adjustments_to_income) ==
    line_9_total_income - line_10_adjustments_to_income

\* The deduction override of line 12 is a record [some, val]; some = FALSE
\* is Python's None.
NoOverride == [some |-> FALSE, val |-> 0]

SomeOverride(v) == [some |-> TRUE, val |-> v]

federal_form_1040_line_12_standard_deduction(policy, line_12_deduction_override) ==
    IF line_12_deduction_override.some
    THEN round_to_dollars(line_12_deduction_override.val)
    ELSE policy.standard_deduction

federal_form_1040_line_15_taxable_income(line_11_adjusted_gross_income, line_14_total_deductions) ==
    line_11_adjusted_gross_income - line_14_total_deductions

\* Lines 3, 4 and 5 of the Qualified Dividends and Capital Gain worksheet.
qualified_dividends_capital_gain_worksheet_lines_3_to_5(line_1_taxable_income, line_2_qualified_dividends, schedule_d_line_15, schedule_d_line_16) ==
    LET line_3 == IF schedule_d_line_15 > 0 /\ schedule_d_line_16 > 0
                  THEN Min2(schedule_d_line_15, schedule_d_line_16) ELSE 0
        line_4 == line_2_qualified_dividends + line_3
        line_5 == Max2(line_1_taxable_income - line_4, 0)
    IN [line_3 |-> line_3, line_4 |-> line_4, line_5 |-> line_5]

\* A faulty lookup: the last row of the schedule that matches is taken.
RECURSIVE LastMatchingRow(_, _, _)
LastMatchingRow(rows, income, i) ==
    IF i > Len(rows) THEN 0
    ELSE IF LastMatchingRow(rows, income, i + 1) # 0
         THEN LastMatchingRow(rows, income, i + 1)
         ELSE IF income >= rows[i].min /\ (rows[i].no_max \/ income <= rows[i].max)
              THEN i
              ELSE 0

\* Index of the first row of a rate schedule with min <= income <= max
\* (max of a row with no_max is unbounded), 0 when no row matches.
RECURSIVE FirstMatchingRow(_, _, _)
FirstMatchingRow(rows, income, i) ==
    IF i > Len(rows) THEN 0
    ELSE IF income >= rows[i].min /\ (rows[i].no_max \/ income <= rows[i].max)
         THEN i
         ELSE FirstMatchingRow(rows, income, i + 1)

federal_form_1040_tax_computation_worksheet_tax(taxable_income, policy) ==
    LET worksheet == policy.tax_computation_worksheet
        i == FirstMatchingRow(worksheet.sections, taxable_income, 1)
        row == worksheet.sections[i]
    IN IF taxable_income < worksheet.min_income
       THEN Raise(NoMatchingBracket("tax_computation_worksheet_min_income",
                                    taxable_income))
       ELSE IF i = 0
       THEN Raise(NoMatchingBracket("tax_computation_worksheet", taxable_income))
       ELSE Ok(Units * RoundHalfUp(
                   taxable_income * row.rate.num - row.subtract_amount * row.rate.den,
                   row.rate.den * Units))

\* A faulty line 22: the tax computation worksheet is applied to the
\* taxable income (line 1), not to line 5.
federal_form_1040_qualified_dividends_capital_gain_worksheet_line_22_tax_on_line_1(line_1_taxable_income, line_2_qualified_dividends, schedule_d_line_15, schedule_d_line_16, policy) ==
    federal_form_1040_tax_computation_worksheet_tax(line_1_taxable_income, policy)

federal_form_1040_qualified_dividends_capital_gain_worksheet_line_22_tax_on_line_5(line_1_taxable_income, line_2_qualified_dividends, schedule_d_line_15, schedule_d_line_16, policy) ==
    federal_form_1040_tax_computation_worksheet_tax(
        qualified_dividends_capital_gain_worksheet_lines_3_to_5(
            line_1_taxable_income, line_2_qualified_dividends,
            schedule_d_line_15, schedule_d_line_16).line_5,
        policy)

federal_form_1040_qualified_dividends_capital_gain_worksheet_line_24_tax_on_line_1(line_1_taxable_income, policy) ==
    federal_form_1040_tax_computation_worksheet_tax(line_1_taxable_income, policy)

\* Faulty lines 7 to 21: line 16 is not floored at zero.
qualified_dividends_capital_gain_worksheet_lines_7_to_21_unfloored(line_1_taxable_income, line_4, line_5, policy) ==
    LET line_7 == Min2(line_1_taxable_income, policy.capital_gains.zero_rate_threshold)
        line_8 == Min2(line_5, line_7)
        line_9 == line_7 - line_8
        line_10 == Min2(line_1_taxable_income, line_4)
        line_12 == line_10 - line_9
        line_14 == Min2(line_1_taxable_income, policy.capital_gains.twenty_rate_threshold)
        line_15 == line_5 + line_9
        line_16 == line_14 - line_15
        line_17 == Min2(line_12, line_16)
        line_18 == RoundMulRate(line_17, policy.capital_gains.rate_15)
        line_19 == line_9 + line_17
        line_20 == line_10 - line_19
        line_21 == RoundMulRate(line_20, policy.capital_gains.rate_20)
    IN [line_9 |-> line_9, line_10 |-> line_10, line_17 |-> line_17,
        line_18 |-> line_18, line_20 |-> line_20, line_21 |-> line_21]

\* Lines 7 to 21 of the worksheet, as
\* federal_form_1040_qualified_dividends_capital_gain_worksheet_line_25
\* assigns them (tax.py 1714-1727): the 0%, 15% and 20% amounts (lines 9,
\* 17, 20) of line 10 and the two taxes (lines 18, 21).
qualified_dividends_capital_gain_worksheet_lines_7_to_21(line_1_taxable_income, line_4, line_5, policy) ==
    LET line_7 == Min2(line_1_taxable_income, policy.capital_gains.zero_rate_threshold)
        line_8 == Min2(line_5, line_7)
        line_9 == line_7 - line_8
        line_10 == Min2(line_1_taxable_income, line_4)
        line_12 == line_10 - line_9
        line_14 == Min2(line_1_taxable_income, policy.capital_gains.twenty_rate_threshold)
        line_15 == line_5 + line_9
        line_16 == Max2(line_14 - line_15, 0)
        line_17 == Min2(line_12, line_16)
        line_18 == RoundMulRate(line_17, policy.capital_gains.rate_15)
        line_19 == line_9 + line_17
        line_20 == line_10 - line_19
        line_21 == RoundMulRate(line_20, policy.capital_gains.rate_20)
    IN [line_9 |-> line_9, line_10 |-> line_10, line_17 |-> line_17,
        line_18 |-> line_18, line_20 |-> line_20, line_21 |-> line_21]

federal_form_1040_qualified_dividends_capital_gain_worksheet_line_25(line_1_taxable_income, line_2_qualified_dividends, schedule_d_line_15, schedule_d_line_16, policy) ==
    LET l345 == qualified_dividends_capital_gain_worksheet_lines_3_to_5(
                    line_1_taxable_income, line_2_qualified_dividends,
                    schedule_d_line_15, schedule_d_line_16)
        line_22_tax_on_line_5 ==
            federal_form_1040_qualified_dividends_capital_gain_worksheet_line_22_tax_on_line_5(
                line_1_taxable_income, line_2_qualified_dividends,
                schedule_d_line_15, schedule_d_line_16, policy)
        line_24_tax_on_line_1 ==
            federal_form_1040_qualified_dividends_capital_gain_worksheet_line_24_tax_on_line_1(
                line_1_taxable_income, policy)
        l == qualified_dividends_capital_gain_worksheet_lines_7_to_21(
                 line_1_taxable_income, l345.line_4, l345.line_5, policy)
        line_23 == round_to_dollars(l.line_18 + l.line_21 + line_22_tax_on_line_5.val)
    IN IF ~line_22_tax_on_line_5.ok THEN line_22_tax_on_line_5
       ELSE IF ~line_24_tax_on_line_1.ok THEN line_24_tax_on_line_1
       ELSE Ok(Min2(line_23, line_24_tax_on_line_1.val))

federal_form_1040_line_16_tax(line_16_tax_from_worksheet) ==
    line_16_tax_from_worksheet

\* ---------------------------------------------------------------------
\* compute_federal_total_tax: the computation (tax.py 3647-3954)
\* ---------------------------------------------------------------------

\* The locals each statement reads, by pipeline and by the local the
\* statement assigns: the names that occur in its right-hand side (and in
\* the condition it stands under) and are assigned by a statement of the
\* pipeline.
statement_reads ==
    [federal |-> [
      k1_box_14a |-> {}, k1_box_12 |-> {},
      line_2_sched_c_k1 |-> {"k1_box_12", "k1_box_14a"},
      line_6_se_earnings |-> {"line_2_sched_c_k1"},
      line_10_ss_tax |-> {"line_6_se_earnings"},
      line_11_medicare |-> {"line_6_se_earnings"},
      line_12_se_tax |-> {"line_10_ss_tax", "line_11_medicare"},
      line_15_deductible_se_tax |-> {"line_12_se_tax"},
      line_16_retirement |-> {}, line_17_health_insurance |-> {},
      line_26_adjustments |-> {"line_15_deductible_se_tax", "line_16_retirement", "line_17_health_insurance"},
      w2_medicare_wages |-> {},
      line_11_add_medicare |-> {"line_6_se_earnings", "w2_medicare_wages"},
      line_1_sched_b_interest |-> {},
      line_6_sched_b_ordinary_dividends |-> {},
      line_1_taxable_interest |-> {"line_1_sched_b_interest"},
      line_2_ordinary_dividends |-> {"line_6_sched_b_ordinary_dividends"},
      line_29a_nonpassive_income |-> {},
      line_29b_nonpassive_loss_allowed |-> {},
      line_29b_section_179_deduction |-> {},
      line_30_total_income |-> {"line_29a_nonpassive_income"},
      line_31_total_losses |-> {"line_29b_nonpassive_loss_allowed", "line_29b_section_179_deduction"},
      line_32_total_partnership_income |-> {"line_30_total_income", "line_31_total_losses"},
      line_5_schedule_1_rental_income |-> {"line_32_total_partnership_income"},
      line_10_schedule_1_additional_income |-> {"line_5_schedule_1_rental_income"},
      line_4a_rentals_partnerships |-> {"line_32_total_partnership_income"},
      line_4b_additional_deductions |-> {},
      line_4b_adjustment |-> {"line_29a_nonpassive_income", "line_29b_section_179_deduction", "line_4b_additional_deductions"},
      line_4c_net_income |-> {"line_4a_rentals_partnerships", "line_4b_adjustment"},
      form_6781_line_7_total |-> {},
      form_6781_line_8_short_term |-> {"form_6781_line_7_total"},
      form_6781_line_9_long_term |-> {"form_6781_line_7_total"},
      schedule_d_line_1a |-> {}, schedule_d_line_3 |-> {},
      schedule_d_line_4 |-> {"form_6781_line_8_short_term"},
      schedule_d_line_5 |-> {},
      schedule_d_line_7 |-> {"schedule_d_line_1a", "schedule_d_line_3", "schedule_d_line_4", "schedule_d_line_5"},
      schedule_d_line_10 |-> {},
      schedule_d_line_11 |-> {"form_6781_line_9_long_term"},
      schedule_d_line_12 |-> {},
      schedule_d_line_15 |-> {"schedule_d_line_10", "schedule_d_line_11", "schedule_d_line_12"},
      schedule_d_line_16 |-> {"schedule_d_line_15", "schedule_d_line_7"},
      line_5a_net_gain |-> {"schedule_d_line_16"},
      line_5d_net_gain |-> {"line_5a_net_gain"},
      line_8_total_investment_income |-> {"line_1_taxable_interest", "line_2_ordinary_dividends", "line_4c_net_income", "line_5d_net_gain"},
      line_9a_investment_interest_expense |-> {},
      line_9b_state_local_foreign_income_tax |-> {},
      line_9c_misc_investment_expenses |-> {},
      line_9d_total_investment_expenses |-> {"line_9a_investment_interest_expense", "line_9b_state_local_foreign_income_tax", "line_9c_misc_investment_expenses"},
      line_11_total_deductions_and_modifications |-> {"line_9d_total_investment_expenses"},
      line_12_net_investment_income |-> {"line_11_total_deductions_and_modifications", "line_8_total_investment_income"},
      line_1z_wages |-> {},
      line_2b_taxable_interest |-> {"line_1_sched_b_interest"},
      line_3b_ordinary_dividends |-> {"line_6_sched_b_ordinary_dividends"},
      line_5b_pensions |-> {},
      line_7_capital_gain_loss |-> {"schedule_d_line_16"},
      line_8_additional_income |-> {"line_10_schedule_1_additional_income"},
      line_9_total_income |-> {"line_1z_wages", "line_2b_taxable_interest", "line_3b_ordinary_dividends", "line_5b_pensions", "line_7_capital_gain_loss", "line_8_additional_income"},
      line_11_agi |-> {"line_26_adjustments", "line_9_total_income"},
      line_3a_qualified_dividends |-> {},
      line_12_deduction_override |-> {"line_9b_state_local_foreign_income_tax"},
      line_12_standard_deduction |-> {"line_12_deduction_override"},
      line_13_qbi_deduction |-> {},
      line_14_total_deductions |-> {"line_12_standard_deduction", "line_13_qbi_deduction"},
      line_15_taxable_income |-> {"line_11_agi", "line_14_total_deductions"},
      line_13_modified_agi |-> {"line_11_agi"},
      line_15_agi_over_threshold |-> {"line_13_modified_agi"},
      line_16_niit_base |-> {"line_12_net_investment_income", "line_15_agi_over_threshold"},
      line_17_niit |-> {"line_16_niit_base"},
      line_12_niit |-> {"line_17_niit"},
      line_21_other_taxes |-> {"line_11_add_medicare", "line_12_niit", "line_12_se_tax"},
      line_23_other_taxes |-> {"line_21_other_taxes"},
      worksheet_line_25 |-> {"line_15_taxable_income", "line_3a_qualified_dividends", "schedule_d_line_15", "schedule_d_line_16"},
      line_16_tax |-> {"worksheet_line_25"},
      line_18_tax_and_amounts |-> {"line_16_tax"},
      line_19_child_tax_credit |-> {}, line_20_schedule_3_line_8 |-> {},
      line_21_total_credits |-> {"line_19_child_tax_credit", "line_20_schedule_3_line_8"},
      line_22_tax_after_credits |-> {"line_18_tax_and_amounts", "line_21_total_credits"},
      total_tax |-> {"line_22_tax_after_credits", "line_23_other_taxes"} ],
     ny |-> [
      k1_box_14a |-> {}, k1_box_12 |-> {},
      line_2_sched_c_k1 |-> {"k1_box_12", "k1_box_14a"},
      line_6_se_earnings |-> {"line_2_sched_c_k1"},
      line_10_ss_tax |-> {"line_6_se_earnings"},
      line_11_medicare |-> {"line_6_se_earnings"},
      line_12_se_tax |-> {"line_10_ss_tax", "line_11_medicare"},
      line_15_deductible_se_tax |-> {"line_12_se_tax"},
      line_16_retirement |-> {}, line_17_health_insurance |-> {},
      line_26_adjustments |-> {"line_15_deductible_se_tax", "line_16_retirement", "line_17_health_insurance"},
      line_1_sched_b_interest |-> {},
      line_6_sched_b_ordinary_dividends |-> {},
      line_29a_nonpassive_income |-> {},
      line_29b_nonpassive_loss_allowed |-> {},
      line_29b_section_179_deduction |-> {},
      line_30_total_income |-> {"line_29a_nonpassive_income"},
      line_31_total_losses |-> {"line_29b_nonpassive_loss_allowed", "line_29b_section_179_deduction"},
      line_32_total_partnership_income |-> {"line_30_total_income", "line_31_total_losses"},
      line_5_schedule_1_rental_income |-> {"line_32_total_partnership_income"},
      line_10_schedule_1_additional_income |-> {"line_5_schedule_1_rental_income"},
      form_6781_line_7_total |-> {},
      form_6781_line_8_short_term |-> {"form_6781_line_7_total"},
      form_6781_line_9_long_term |-> {"form_6781_line_7_total"},
      schedule_d_line_1a |-> {}, schedule_d_line_3 |-> {},
      schedule_d_line_4 |-> {"form_6781_line_8_short_term"},
      schedule_d_line_5 |-> {},
      schedule_d_line_7 |-> {"schedule_d_line_1a", "schedule_d_line_3", "schedule_d_line_4", "schedule_d_line_5"},
      schedule_d_line_10 |-> {},
      schedule_d_line_11 |-> {"form_6781_line_9_long_term"},
      schedule_d_line_12 |-> {},
      schedule_d_line_15 |-> {"schedule_d_line_10", "schedule_d_line_11", "schedule_d_line_12"},
      schedule_d_line_16 |-> {"schedule_d_line_15", "schedule_d_line_7"},
      line_1z_wages |-> {}, line_5b_pensions |-> {},
      line_9_total_income |-> {"line_10_schedule_1_additional_income", "line_1_sched_b_interest", "line_1z_wages", "line_5b_pensions", "line_6_sched_b_ordinary_dividends", "schedule_d_line_16"},
      it201_line_17 |-> {"line_9_total_income"},
      it201_line_18 |-> {"line_26_adjustments"},
      it201_line_19 |-> {"it201_line_17", "it201_line_18"},
      it225_line_1a_items |-> {}, it225_line_1a |-> {"it225_line_1a_items"},
      it225_line_2 |-> {"it225_line_1a"}, it225_line_4 |-> {"it225_line_2"},
      it225_line_5a_items |-> {}, it225_line_5a |-> {"it225_line_5a_items"},
      it225_line_5b_items |-> {}, it225_line_5b |-> {"it225_line_5b_items"},
      it225_line_6 |-> {"it225_line_5a", "it225_line_5b"},
      it225_line_8 |-> {"it225_line_6"},
      it225_line_9 |-> {"it225_line_4", "it225_line_8"},
      it201_line_23 |-> {"it225_line_9"}, it201_line_21 |-> {},
      it201_line_22 |-> {},
      it201_line_24 |-> {"it201_line_19", "it201_line_21", "it201_line_22", "it201_line_23"},
      line_28_items |-> {}, it201_line_28 |-> {"line_28_items"},
      it201_line_32 |-> {"it201_line_28"},
      it201_line_33 |-> {"it201_line_24", "it201_line_32"},
      it201_line_34 |-> {},
      it201_line_35 |-> {"it201_line_33", "it201_line_34"},
      dependents_count |-> {}, it201_line_36 |-> {"dependents_count"},
      it201_line_38 |-> {"it201_line_35", "it201_line_36"},
      stmt2_line_3 |-> {"it201_line_38"}, stmt2_line_4 |-> {},
      stmt2_line_9 |-> {},
      it201_line_39 |-> {"stmt2_line_3", "stmt2_line_4", "stmt2_line_9"},
      it112r_line_22_total |-> {"it201_line_33"},
      it112r_line_22_other_state_items |-> {},
      it112r_line_22_other |-> {"it112r_line_22_other_state_items"},
      it112r_line_24_items |-> {},
      it112r_line_24 |-> {"it112r_line_24_items"},
      it112r_line_26 |-> {"it112r_line_22_other", "it112r_line_22_total"},
      it112r_line_27 |-> {"it112r_line_26", "it201_line_39"},
      it112r_line_28 |-> {"it112r_line_24", "it112r_line_27"},
      it112r_line_30 |-> {"it112r_line_28"},
      it112r_line_34 |-> {"it112r_line_30", "it201_line_39"},
      it201_line_41 |-> {"it112r_line_34"},
      it201_line_43 |-> {"it201_line_41"},
      it201_line_44 |-> {"it201_line_39", "it201_line_43"},
      it201_line_46 |-> {"it201_line_44"},
      it201_line_47 |-> {"it201_line_38"},
      it201_line_47a |-> {"it201_line_47"},
      it201_line_49 |-> {"it201_line_47a"}, ubt_credit_items |-> {},
      it219_line_7 |-> {"ubt_credit_items"},
      it219_line_8 |-> {"it219_line_7"}, it219_line_9 |-> {"it201_line_47"},
      it219_line_10 |-> {"it219_line_9"},
      it219_line_11 |-> {"it219_line_10", "it219_line_8"},
      it219_line_15 |-> {"it201_line_49"},
      it219_line_16 |-> {"it219_line_11", "it219_line_15"},
      att_line_8 |-> {"it219_line_16"}, att_line_10 |-> {"att_line_8"},
      it201_line_53 |-> {"att_line_10"}, it201_line_52 |-> {"it201_line_49"},
      it201_line_54 |-> {"it201_line_52", "it201_line_53"},
      mctmt_ordinary |-> {}, mctmt_guaranteed |-> {},
      mctmt_items |-> {"mctmt_guaranteed", "mctmt_ordinary"},
      worksheet_4a_line_1 |-> {"mctmt_items"},
      it201_line_54a |-> {"worksheet_4a_line_1"},
      it201_line_54c |-> {"it201_line_54a"},
      it201_line_54e |-> {"it201_line_54c"},
      it201_line_58 |-> {"it201_line_54", "it201_line_54e"},
      it201_line_61 |-> {"it201_line_46", "it201_line_58"},
      it201_line_62 |-> {"it201_line_61"} ]]

\* A faulty line 11 selection: the override is taken unrounded.
orchestrator_line_11_agi_unrounded(index, line_9_total_income, line_26_adjustments) ==
    LET line_11_agi_override ==
            tag_sum(index, "form_1040_line_11_adjusted_gross_income")
    IN IF line_11_agi_override # 0
       THEN line_11_agi_override
       ELSE federal_form_1040_line_11_adjusted_gross_income(
                line_9_total_income, line_26_adjustments)

\* Form 1040 line 11 in the orchestrator (tax.py 3856-3865).
orchestrator_line_11_agi(index, line_9_total_income, line_26_adjustments) ==
    LET line_11_agi_override ==
            tag_sum(index, "form_1040_line_11_adjusted_gross_income")
    IN IF line_11_agi_override # 0
       THEN round_to_dollars(line_11_agi_override)
       ELSE federal_form_1040_line_11_adjusted_gross_income(
                line_9_total_income, line_26_adjustments)

\* A faulty line 12 override: line 9b is not added.
orchestrator_line_12_deduction_override_no_salt(index, line_9b_state_local_foreign_income_tax) ==
    LET line_12_deduction_override_items ==
            tag_sum(index, "form_1040_line_12_deductions")
    IN IF line_12_deduction_override_items # 0
       THEN SomeOverride(line_12_deduction_override_items)
       ELSE NoOverride

\* line_12_deduction_override in the orchestrator (tax.py 3873-3882).
orchestrator_line_12_deduction_override(index, line_9b_state_local_foreign_income_tax) ==
    LET line_12_deduction_override_items ==
            tag_sum(index, "form_1040_line_12_deductions")
    IN IF line_12_deduction_override_items # 0
       THEN SomeOverride(line_12_deduction_override_items
                         + line_9b_state_local_foreign_income_tax)
       ELSE NoOverride

\* line_13_qbi_deduction in the orchestrator (tax.py 3887-3891).
orchestrator_line_13_qbi_deduction(index) ==
    tag_sum(index, "form_1040_line_13_qbi_deduction")
    + RoundMulRate(tag_sum(index, "form_1099_div_box_5_section_199a_dividends"),
                   [num |-> 20, den |-> 100])

\* A faulty line 16 selection: any fact under the tag overrides,
\* a zero total included.
orchestrator_line_16_tax_if_present(index, worksheet_line_25) ==
    LET line_16_tax_input == tag_sum(index, "form_1040_line_16_tax")
    IN IF BucketOf(index, "form_1040_line_16_tax") # <<>>
       THEN federal_form_1040_line_16_tax(line_16_tax_input)
       ELSE federal_form_1040_line_16_tax(worksheet_line_25)

\* Form 1040 line 16 in the orchestrator (tax.py 3932-3938).
orchestrator_line_16_tax(index, worksheet_line_25) ==
    LET line_16_tax_input == tag_sum(index, "form_1040_line_16_tax")
    IN IF line_16_tax_input # 0
       THEN federal_form_1040_line_16_tax(line_16_tax_input)
       ELSE federal_form_1040_line_16_tax(worksheet_line_25)

\* One statement of compute_federal_total_tax, named by the local it
\* assigns, evaluated over the locals e assigned so far: Ok(the value) or
\* the error it raises.  A line function whose body is a single
\* expression (it passes on, adds or subtracts its arguments, reads one
\* tag, sums one item list, applies one rate or takes one minimum) is
\* written out in its arm under the function's name; an argument the
\* orchestrator leaves at its default appears as the literal 0.
federal_statement(name, index, policy, e) ==
    CASE name = "k1_box_14a" ->
            tag_total(index, "schedule_se_k1_box_14a_self_employment_earnings",
                TRUE, FALSE)
      [] name = "k1_box_12" ->
            tag_total(index, "section_179_deduction", TRUE, FALSE)
      [] name = "line_2_sched_c_k1" ->
            Ok(federal_schedule_se_line_2_schedule_c_and_k1_profit(
                e.k1_box_14a, e.k1_box_12))
      [] name = "line_6_se_earnings" ->
            Ok(federal_schedule_se_line_6_total_se_earnings(e.line_2_sched_c_k1,
                policy))
      [] name = "line_10_ss_tax" ->
            Ok(federal_schedule_se_line_10_social_security_tax(e.line_6_se_earnings,
                policy))
      [] name = "line_11_medicare" ->
            Ok(federal_schedule_se_line_11_medicare_tax(e.line_6_se_earnings,
                policy))
      [] name = "line_12_se_tax" ->
            Ok(federal_schedule_se_line_12_self_employment_tax(
                e.line_10_ss_tax, e.line_11_medicare))
      [] name = "line_15_deductible_se_tax" ->
            Ok(federal_schedule_1_line_15_deductible_self_employment_tax(e.line_12_se_tax))
      [] name = "line_16_retirement" ->
            \* federal_schedule_1_line_16_self_employed_retirement_contributions
            Ok(round_to_dollars(tag_sum(index,
                "schedule_1_line_16_self_employed_retirement")))
      [] name = "line_17_health_insurance" ->
            \* federal_schedule_1_line_17_self_employed_health_insurance
            Ok(round_to_dollars(tag_sum(index,
                "schedule_1_line_17_self_employed_health_insurance")))
      [] name = "line_26_adjustments" ->
            \* federal_schedule_1_line_26_adjustments_to_income
            Ok(round_to_dollars(e.line_15_deductible_se_tax +
                e.line_16_retirement + e.line_17_health_insurance + 0))
      [] name = "w2_medicare_wages" ->
            Ok(tag_sum(index, "w2_box_5_medicare_wages"))
      [] name = "line_11_add_medicare" ->
            Ok(federal_form_8959_line_18_additional_medicare_tax(
                e.w2_medicare_wages, e.line_6_se_earnings, policy))
      [] name = "line_1_sched_b_interest" ->
            \* federal_schedule_b_line_1_taxable_interest
            Ok(round_to_dollars(tag_sum(index, "schedule_b_interest")))
      [] name = "line_6_sched_b_ordinary_dividends" ->
            \* federal_schedule_b_line_6_ordinary_dividends
            Ok(round_to_dollars(tag_sum(index,
                "schedule_b_ordinary_dividends")))
      [] name = "line_1_taxable_interest" ->
            \* federal_form_8960_line_1_taxable_interest
            Ok(e.line_1_sched_b_interest)
      [] name = "line_2_ordinary_dividends" ->
            \* federal_form_8960_line_2_ordinary_dividends
            Ok(e.line_6_sched_b_ordinary_dividends)
      [] name = "line_29a_nonpassive_income" ->
            \* federal_schedule_e_line_29a_total_nonpassive_income
            Ok(round_to_dollars(tag_sum(index, "schedule_e_nonpassive_income")
                + schedule_e_nonpassive_income_from_k1_components(index)))
      [] name = "line_29b_nonpassive_loss_allowed" ->
            \* federal_schedule_e_line_29b_total_nonpassive_loss_allowed
            Ok(round_to_dollars(tag_sum(index,
                "schedule_e_line_29b_nonpassive_loss_allowed")))
      [] name = "line_29b_section_179_deduction" ->
            \* federal_schedule_e_line_29b_total_section_179_deduction
            Ok(round_to_dollars(tag_sum(index, "section_179_deduction")))
      [] name = "line_30_total_income" ->
            \* federal_schedule_e_line_30_total_income
            Ok(round_to_dollars(e.line_29a_nonpassive_income))
      [] name = "line_31_total_losses" ->
            \* federal_schedule_e_line_31_total_losses
            Ok(-round_to_dollars(e.line_29b_nonpassive_loss_allowed +
                e.line_29b_section_179_deduction))
      [] name = "line_32_total_partnership_income" ->
            \* federal_schedule_e_line_32_total_partnership_income
            Ok(e.line_30_total_income + e.line_31_total_losses)
      [] name = "line_5_schedule_1_rental_income" ->
            \* federal_schedule_1_line_5_rental_real_estate_income
            Ok(e.line_32_total_partnership_income)
      [] name = "line_10_schedule_1_additional_income" ->
            \* federal_schedule_1_line_10_additional_income
            Ok(round_to_dollars(e.line_5_schedule_1_rental_income + 0))
      [] name = "line_4a_rentals_partnerships" ->
            \* federal_form_8960_line_4a_rental_real_estate_royalties_partnerships
            Ok(e.line_32_total_partnership_income)
      [] name = "line_4b_additional_deductions" ->
            Ok(tag_sum(index,
                "form_8960_line_4b_additional_nonpassive_deductions"))
      [] name = "line_4b_adjustment" ->
            Ok(federal_form_8960_line_4b_adjustment_nonsection_1411(
                e.line_29a_nonpassive_income, 0,
                e.line_29b_section_179_deduction,
                e.line_4b_additional_deductions))
      [] name = "line_4c_net_income" ->
            \* federal_form_8960_line_4c_net_income_from_rentals
            Ok(e.line_4a_rentals_partnerships + e.line_4b_adjustment)
      [] name = "form_6781_line_7_total" ->
            \* federal_form_6781_line_7_total_gain_loss_1256
            Ok(round_to_dollars(tag_sum(index, "section_1256_contracts")))
      [] name = "form_6781_line_8_short_term" ->
            \* federal_form_6781_line_8_short_term_portion
            Ok(RoundMulRate(e.form_6781_line_7_total,
                policy.section_1256.short_term_rate))
      [] name = "form_6781_line_9_long_term" ->
            \* federal_form_6781_line_9_long_term_portion
            Ok(RoundMulRate(e.form_6781_line_7_total,
                policy.section_1256.long_term_rate))
      [] name = "schedule_d_line_1a" ->
            \* federal_schedule_d_line_1a_short_term_gain
            Ok(round_to_dollars(tag_sum(index, "schedule_d_line_1a_proceeds") -
                tag_sum(index, "schedule_d_line_1a_cost_basis") +
                tag_sum(index, "schedule_d_line_1a_adjustments")))
      [] name = "schedule_d_line_3" ->
            \* federal_schedule_d_line_3_short_term_section_1061_adjustment
            Ok(round_to_dollars(tag_sum(index,
                "schedule_d_section_1061_adjustment")))
      [] name = "schedule_d_line_4" ->
            \* federal_schedule_d_line_4_short_term_from_6781
            Ok(e.form_6781_line_8_short_term)
      [] name = "schedule_d_line_5" ->
            \* federal_schedule_d_line_5_short_term_k1_gain
            Ok(round_to_dollars(tag_sum(index,
                "schedule_d_k1_short_term_gains")))
      [] name = "schedule_d_line_7" ->
            \* federal_schedule_d_line_7_net_short_term_gain
            Ok(e.schedule_d_line_1a + e.schedule_d_line_3 + e.schedule_d_line_4
                + e.schedule_d_line_5 + 0)
      [] name = "schedule_d_line_10" ->
            \* federal_schedule_d_line_10_long_term_section_1061_adjustment
            Ok(-round_to_dollars(tag_sum(index,
                "schedule_d_section_1061_adjustment")))
      [] name = "schedule_d_line_11" ->
            \* federal_schedule_d_line_11_long_term_from_6781_and_4797
            Ok(round_to_dollars(e.form_6781_line_9_long_term + tag_sum(index,
                "section_1231_gains")))
      [] name = "schedule_d_line_12" ->
            \* federal_schedule_d_line_12_long_term_k1_gain
            Ok(round_to_dollars(tag_sum(index,
                "schedule_d_k1_long_term_gains")))
      [] name = "schedule_d_line_15" ->
            \* federal_schedule_d_line_15_net_long_term_gain
            Ok(e.schedule_d_line_10 + e.schedule_d_line_11 +
                e.schedule_d_line_12)
      [] name = "schedule_d_line_16" ->
            \* federal_schedule_d_line_16_net_capital_gain
            Ok(e.schedule_d_line_7 + e.schedule_d_line_15)
      [] name = "line_5a_net_gain" ->
            \* federal_form_8960_line_5a_net_gain_loss_disposition
            Ok(e.schedule_d_line_16)
      [] name = "line_5d_net_gain" ->
            \* federal_form_8960_line_5d_net_gain_loss_disposition
            Ok(e.line_5a_net_gain + 0 + 0)
      [] name = "line_8_total_investment_income" ->
            \* federal_form_8960_line_8_total_investment_income
            Ok(e.line_1_taxable_interest + e.line_2_ordinary_dividends + 0 +
                e.line_4c_net_income + e.line_5d_net_gain + 0 + 0)
      [] name = "line_9a_investment_interest_expense" ->
            \* federal_form_8960_line_9a_investment_interest_expense
            Ok(round_to_dollars(tag_sum(index,
                "form_8960_line_9a_investment_interest_expense")))
      [] name = "line_9b_state_local_foreign_income_tax" ->
            Ok(federal_form_8960_line_9b_state_local_foreign_income_tax(index,
                policy))
      [] name = "line_9c_misc_investment_expenses" ->
            \* federal_form_8960_line_9c_misc_investment_expenses
            Ok(round_to_dollars(tag_sum(index,
                "form_8960_line_9c_misc_investment_expenses")))
      [] name = "line_9d_total_investment_expenses" ->
            \* federal_form_8960_line_9d_total_investment_expenses
            Ok(e.line_9a_investment_interest_expense +
                e.line_9b_state_local_foreign_income_tax +
                e.line_9c_misc_investment_expenses)
      [] name = "line_11_total_deductions_and_modifications" ->
            \* federal_form_8960_line_11_total_deductions_and_modifications
            Ok(e.line_9d_total_investment_expenses + 0)
      [] name = "line_12_net_investment_income" ->
            \* federal_form_8960_line_12_net_investment_income
            Ok(e.line_8_total_investment_income -
                e.line_11_total_deductions_and_modifications)
      [] name = "line_1z_wages" ->
            \* federal_form_1040_line_1z_wages
            tag_total(index, "form_1040_line_1z_wages", FALSE, TRUE)
      [] name = "line_2b_taxable_interest" ->
            Ok(e.line_1_sched_b_interest)
      [] name = "line_3b_ordinary_dividends" ->
            Ok(e.line_6_sched_b_ordinary_dividends)
      [] name = "line_5b_pensions" ->
            \* federal_form_1040_line_5b_pensions_annuities
            Ok(round_to_dollars(tag_sum(index, "form_1040_line_5b_pensions")))
      [] name = "line_7_capital_gain_loss" ->
            Ok(e.schedule_d_line_16)
      [] name = "line_8_additional_income" ->
            Ok(e.line_10_schedule_1_additional_income)
      [] name = "line_9_total_income" ->
            \* federal_form_1040_line_9_total_income
            Ok(round_to_dollars(e.line_1z_wages + e.line_2b_taxable_interest +
                e.line_3b_ordinary_dividends + e.line_5b_pensions +
                e.line_7_capital_gain_loss + e.line_8_additional_income))
      [] name = "line_11_agi" ->
            Ok(orchestrator_line_11_agi(index, e.line_9_total_income,
                e.line_26_adjustments))
      [] name = "line_3a_qualified_dividends" ->
            \* federal_form_1040_line_3a_qualified_dividends
            Ok(round_to_dollars(tag_sum(index,
                "form_1040_line_3a_qualified_dividends")))
      [] name = "line_12_deduction_override" ->
            Ok(orchestrator_line_12_deduction_override(index,
                e.line_9b_state_local_foreign_income_tax))
      [] name = "line_12_standard_deduction" ->
            Ok(federal_form_1040_line_12_standard_deduction(policy,
                e.line_12_deduction_override))
      [] name = "line_13_qbi_deduction" ->
            Ok(orchestrator_line_13_qbi_deduction(index))
      [] name = "line_14_total_deductions" ->
            \* federal_form_1040_line_14_total_deductions
            Ok(e.line_12_standard_deduction + e.line_13_qbi_deduction)
      [] name = "line_15_taxable_income" ->
            Ok(federal_form_1040_line_15_taxable_income(e.line_11_agi,
                e.line_14_total_deductions))
      [] name = "line_13_modified_agi" ->
            \* federal_form_8960_line_13_modified_adjusted_gross_income
            Ok(e.line_11_agi)
      [] name = "line_15_agi_over_threshold" ->
            \* federal_form_8960_line_15_modified_agi_over_threshold
            Ok(Max2(0, e.line_13_modified_agi -
                policy.net_investment_income_tax.threshold))
      [] name = "line_16_niit_base" ->
            \* federal_form_8960_line_16_smaller_of_line_12_or_15
            Ok(Min2(e.line_12_net_investment_income,
                e.line_15_agi_over_threshold))
      [] name = "line_17_niit" ->
            \* federal_form_8960_line_17_net_investment_income_tax
            Ok(RoundMulRate(e.line_16_niit_base,
                policy.net_investment_income_tax.rate))
      [] name = "line_12_niit" ->
            \* federal_schedule_2_line_12_net_investment_income_tax
            Ok(e.line_17_niit)
      [] name = "line_21_other_taxes" ->
            \* federal_schedule_2_line_21_other_taxes
            Ok(e.line_12_se_tax + 0 + 0 + 0 + 0 + e.line_11_add_medicare +
                e.line_12_niit + 0 + 0 + 0 + 0 + 0 + 0)
      [] name = "line_23_other_taxes" ->
            \* federal_1040_line_23_other_taxes
            Ok(e.line_21_other_taxes)
      [] name = "worksheet_line_25" ->
            federal_form_1040_qualified_dividends_capital_gain_worksheet_line_25(
                e.line_15_taxable_income, e.line_3a_qualified_dividends,
                e.schedule_d_line_15, e.schedule_d_line_16, policy)
      [] name = "line_16_tax" ->
            Ok(orchestrator_line_16_tax(index, e.worksheet_line_25))
      [] name = "line_18_tax_and_amounts" ->
            \* federal_form_1040_line_18_tax_and_amounts
            Ok(e.line_16_tax + 0)
      [] name = "line_19_child_tax_credit" ->
            Ok(tag_sum(index, "form_1040_line_19_child_tax_credit"))
      [] name = "line_20_schedule_3_line_8" ->
            Ok(tag_sum(index, "form_1116_foreign_taxes_paid"))
      [] name = "line_21_total_credits" ->
            \* federal_form_1040_line_21_total_credits
            Ok(e.line_19_child_tax_credit + e.line_20_schedule_3_line_8)
      [] name = "line_22_tax_after_credits" ->
            \* federal_form_1040_line_22_tax_after_credits
            Ok(e.line_18_tax_and_amounts - e.line_21_total_credits)
      [] name = "total_tax" ->
            \* federal_1040_line_24_total_tax
            Ok(e.line_22_tax_after_credits + e.line_23_other_taxes)

\* A faulty order: the deductible part of the self-employment tax
\* (Schedule 1 line 15) is computed before Schedule SE line 12.
federal_compute_order_deduction_before_se_tax == <<
      "k1_box_14a", "k1_box_12", "line_2_sched_c_k1", "line_6_se_earnings",
      "line_10_ss_tax", "line_11_medicare", "line_15_deductible_se_tax",
      "line_12_se_tax", "line_16_retirement",
      "line_17_health_insurance", "line_26_adjustments", "w2_medicare_wages",
      "line_11_add_medicare", "line_1_sched_b_interest",
      "line_6_sched_b_ordinary_dividends", "line_1_taxable_interest",
      "line_2_ordinary_dividends", "line_29a_nonpassive_income",
      "line_29b_nonpassive_loss_allowed", "line_29b_section_179_deduction",
      "line_30_total_income", "line_31_total_losses",
      "line_32_total_partnership_income", "line_5_schedule_1_rental_income",
      "line_10_schedule_1_additional_income", "line_4a_rentals_partnerships",
      "line_4b_additional_deductions", "line_4b_adjustment",
      "line_4c_net_income", "form_6781_line_7_total",
      "form_6781_line_8_short_term", "form_6781_line_9_long_term",
      "schedule_d_line_1a", "schedule_d_line_3", "schedule_d_line_4",
      "schedule_d_line_5", "schedule_d_line_7", "schedule_d_line_10",
      "schedule_d_line_11", "schedule_d_line_12", "schedule_d_line_15",
      "schedule_d_line_16", "line_5a_net_gain", "line_5d_net_gain",
      "line_8_total_investment_income", "line_9a_investment_interest_expense",
      "line_9b_state_local_foreign_income_tax",
      "line_9c_misc_investment_expenses", "line_9d_total_investment_expenses",
      "line_11_total_deductions_and_modifications",
      "line_12_net_investment_income", "line_1z_wages",
      "line_2b_taxable_interest", "line_3b_ordinary_dividends",
      "line_5b_pensions", "line_7_capital_gain_loss",
      "line_8_additional_income", "line_9_total_income", "line_11_agi",
      "line_3a_qualified_dividends", "line_12_deduction_override",
      "line_12_standard_deduction", "line_13_qbi_deduction",
      "line_14_total_deductions", "line_15_taxable_income",
      "line_13_modified_agi", "line_15_agi_over_threshold",
      "line_16_niit_base", "line_17_niit", "line_12_niit",
      "line_21_other_taxes", "line_23_other_taxes", "worksheet_line_25",
      "line_16_tax", "line_18_tax_and_amounts", "line_19_child_tax_credit",
      "line_20_schedule_3_line_8", "line_21_total_credits",
      "line_22_tax_after_credits", "total_tax" >>

\* The local variables of compute_federal_total_tax in the order in which its
\* statements assign them.
federal_compute_order == <<
      "k1_box_14a", "k1_box_12", "line_2_sched_c_k1", "line_6_se_earnings",
      "line_10_ss_tax", "line_11_medicare", "line_12_se_tax",
      "line_15_deductible_se_tax", "line_16_retirement",
      "line_17_health_insurance", "line_26_adjustments", "w2_medicare_wages",
      "line_11_add_medicare", "line_1_sched_b_interest",
      "line_6_sched_b_ordinary_dividends", "line_1_taxable_interest",
      "line_2_ordinary_dividends", "line_29a_nonpassive_income",
      "line_29b_nonpassive_loss_allowed", "line_29b_section_179_deduction",
      "line_30_total_income", "line_31_total_losses",
      "line_32_total_partnership_income", "line_5_schedule_1_rental_income",
      "line_10_schedule_1_additional_income", "line_4a_rentals_partnerships",
      "line_4b_additional_deductions", "line_4b_adjustment",
      "line_4c_net_income", "form_6781_line_7_total",
      "form_6781_line_8_short_term", "form_6781_line_9_long_term",
      "schedule_d_line_1a", "schedule_d_line_3", "schedule_d_line_4",
      "schedule_d_line_5", "schedule_d_line_7", "schedule_d_line_10",
      "schedule_d_line_11", "schedule_d_line_12", "schedule_d_line_15",
      "schedule_d_line_16", "line_5a_net_gain", "line_5d_net_gain",
      "line_8_total_investment_income", "line_9a_investment_interest_expense",
      "line_9b_state_local_foreign_income_tax",
      "line_9c_misc_investment_expenses", "line_9d_total_investment_expenses",
      "line_11_total_deductions_and_modifications",
      "line_12_net_investment_income", "line_1z_wages",
      "line_2b_taxable_interest", "line_3b_ordinary_dividends",
      "line_5b_pensions", "line_7_capital_gain_loss",
      "line_8_additional_income", "line_9_total_income", "line_11_agi",
      "line_3a_qualified_dividends", "line_12_deduction_override",
      "line_12_standard_deduction", "line_13_qbi_deduction",
      "line_14_total_deductions", "line_15_taxable_income",
      "line_13_modified_agi", "line_15_agi_over_threshold",
      "line_16_niit_base", "line_17_niit", "line_12_niit",
      "line_21_other_taxes", "line_23_other_taxes", "worksheet_line_25",
      "line_16_tax", "line_18_tax_and_amounts", "line_19_child_tax_credit",
      "line_20_schedule_3_line_8", "line_21_total_credits",
      "line_22_tax_after_credits", "total_tax" >>

\* Runs the statements lo..hi of compute_federal_total_tax on the outcome r of the
\* statements before them: Ok(the local variables after them) or the error
\* of the first statement that raises; a statement that reads a local no
\* statement before it assigned raises UnboundLocalError.
RECURSIVE federal_statements(_, _, _, _, _)
federal_statements(lo, hi, index, policy, r) ==
    IF ~r.ok
    THEN r
    ELSE IF lo = hi
         THEN LET Assign(name, assigned) ==
                      IF assigned.ok
                      THEN Ok(r.val @@ (name :> assigned.val))
                      ELSE assigned
              IN IF ~(statement_reads.federal[federal_compute_order[lo]] \subseteq DOMAIN r.val)
                 THEN Raise([type |-> "UnboundLocalError",
                             statement |-> federal_compute_order[lo]])
                 ELSE Assign(federal_compute_order[lo],
                             federal_statement(federal_compute_order[lo], index, policy, r.val))
         ELSE federal_statements(
                  (lo + hi) \div 2 + 1, hi, index, policy,
                  federal_statements(lo, (lo + hi) \div 2, index, policy, r))

\* The statements of compute_federal_total_tax up to the total.
federal_compute(inputs, policy) ==
    federal_statements(1, Len(federal_compute_order), build_inputs_index(inputs),
                   policy, Ok(<<>>))

\* ---------------------------------------------------------------------
\* Compute checks (tax.py 10-12, 69-109)
\* ---------------------------------------------------------------------

\* A node of the expected-values document: a JSON object ("dict", with its
\* members in items), a string-decimal or number ("decimal", in amount
\* units), the text 'sNaN' ("signalling"), any other text ("text"), or
\* null / Python None ("none").
DictNode(items) == [kind |-> "dict", val |-> 0, items |-> items]

DecimalNode(v) == [kind |-> "decimal", val |-> v, items |-> <<>>]

TextNode == [kind |-> "text", val |-> 0, items |-> <<>>]

NoneNode == [kind |-> "none", val |-> 0, items |-> <<>>]

\* The leaf 'sNaN': Decimal(str(node)) accepts it and gives the signalling
\* not-a-number, which no comparison admits.
SignallingNode == [kind |-> "signalling", val |-> 0, items |-> <<>>]

NoContext == [some |-> FALSE, text |-> ""]

SomeContext(text) == [some |-> TRUE, text |-> text]

\* The module globals _COMPUTE_CHECKS_ENABLED / _EXPECTED / _CONTEXT as
\* the module is loaded.
ComputeChecksOff == [enabled |-> FALSE, expected |-> NoneNode, context |-> NoContext]

set_compute_checks_mode(enabled, expected_values, context) ==
    [enabled |-> enabled,
     expected |-> IF enabled THEN expected_values ELSE NoneNode,
     context |-> IF enabled THEN context ELSE NoContext]

NoDecimal == [some |-> FALSE, val |-> 0, signalling |-> FALSE]

SomeDecimal(v) == [some |-> TRUE, val |-> v, signalling |-> FALSE]

SignallingDecimal == [some |-> TRUE, val |-> 0, signalling |-> TRUE]

\* The loop of _expected_decimal_for_path over the keys of the path, then
\* the Decimal(str(node)) conversion with its except clause.
RECURSIVE WalkExpected(_, _, _)
WalkExpected(node, path, i) ==
    IF i > Len(path)
    THEN IF node.kind = "decimal" THEN SomeDecimal(node.val)
         ELSE IF node.kind = "signalling" THEN SignallingDecimal
         ELSE NoDecimal
    ELSE IF node.kind # "dict" \/ path[i] \notin DOMAIN node.items
         THEN NoDecimal
         ELSE WalkExpected(node.items[path[i]], path, i + 1)

expected_decimal_for_path(checks, path) ==
    IF ~checks.enabled \/ checks.expected.kind = "none"
    THEN NoDecimal
    ELSE WalkExpected(checks.expected, path, 1)

\* A faulty comparator: a mismatch is not raised.
check_compute_line_never_raises(checks, path, actual) == Ok(0)

\* _check_compute_line: Ok when it returns, Raise(mismatch) when it
\* raises; the prefix is the context label, "" when there is none. The
\* comparison actual != expected with a signalling not-a-number raises
\* decimal.InvalidOperation.
check_compute_line(checks, path, actual) ==
    LET expected == expected_decimal_for_path(checks, path)
    IN IF ~expected.some
       THEN Ok(0)
       ELSE IF expected.signalling
       THEN Raise([type |-> "InvalidOperation"])
       ELSE IF actual # expected.val
            THEN Raise(ComputeCheckMismatch(
                     IF checks.context.some /\ checks.context.text # ""
                     THEN checks.context.text ELSE "",
                     path, expected.val, actual))
            ELSE Ok(0)

\* The _check_compute_line statements of compute_federal_total_tax, in
\* source order: the path checked and the local variable compared.
federal_check_list == <<
      [path |-> <<"federal", "schedule_se", "line_2_schedule_c_and_k1_profit">>,
       var |-> "line_2_sched_c_k1"],
      [path |-> <<"federal", "schedule_se", "line_6_total_se_earnings">>,
       var |-> "line_6_se_earnings"],
      [path |-> <<"federal", "schedule_se", "line_10_social_security_portion">>,
       var |-> "line_10_ss_tax"],
      [path |-> <<"federal", "schedule_se", "line_11_medicare_portion">>,
       var |-> "line_11_medicare"],
      [path |-> <<"federal", "schedule_se", "line_12_self_employment_tax">>,
       var |-> "line_12_se_tax"],
      [path |-> <<"federal", "schedule_1", "line_5_rental_real_estate_income">>,
       var |-> "line_5_schedule_1_rental_income"],
      [path |-> <<"federal", "schedule_1", "line_10_additional_income">>,
       var |-> "line_10_schedule_1_additional_income"],
      [path |-> <<"federal", "schedule_1", "line_15_deductible_self_employment_tax">>,
       var |-> "line_15_deductible_se_tax"],
      [path |-> <<"federal", "schedule_1", "line_16_self_employed_retirement_contributions">>,
       var |-> "line_16_retirement"],
      [path |-> <<"federal", "schedule_1", "line_17_self_employed_health_insurance">>,
       var |-> "line_17_health_insurance"],
      [path |-> <<"federal", "schedule_1", "line_26_adjustments_to_income">>,
       var |-> "line_26_adjustments"],
      [path |-> <<"federal", "form_8959", "line_18_additional_medicare_tax">>,
       var |-> "line_11_add_medicare"],
      [path |-> <<"federal", "schedule_b", "line_1_taxable_interest">>,
       var |-> "line_1_sched_b_interest"],
      [path |-> <<"federal", "schedule_b", "line_6_ordinary_dividends">>,
       var |-> "line_6_sched_b_ordinary_dividends"],
      [path |-> <<"federal", "schedule_e", "line_29a_total_nonpassive_income">>,
       var |-> "line_29a_nonpassive_income"],
      [path |-> <<"federal", "schedule_e", "line_29b_total_nonpassive_loss_allowed">>,
       var |-> "line_29b_nonpassive_loss_allowed"],
      [path |-> <<"federal", "schedule_e", "line_29b_total_section_179_deduction">>,
       var |-> "line_29b_section_179_deduction"],
      [path |-> <<"federal", "schedule_e", "line_30_total_income">>,
       var |-> "line_30_total_income"],
      [path |-> <<"federal", "schedule_e", "line_31_total_losses">>,
       var |-> "line_31_total_losses"],
      [path |-> <<"federal", "schedule_e", "line_32_total_partnership_income">>,
       var |-> "line_32_total_partnership_income"],
      [path |-> <<"federal", "form_6781", "line_7_total_gain_loss_1256">>,
       var |-> "form_6781_line_7_total"],
      [path |-> <<"federal", "form_6781", "line_8_short_term_portion">>,
       var |-> "form_6781_line_8_short_term"],
      [path |-> <<"federal", "form_6781", "line_9_long_term_portion">>,
       var |-> "form_6781_line_9_long_term"],
      [path |-> <<"federal", "schedule_d", "line_1a_short_term_gain">>,
       var |-> "schedule_d_line_1a"],
      [path |-> <<"federal", "schedule_d", "line_3_short_term_section_1061_adjustment">>,
       var |-> "schedule_d_line_3"],
      [path |-> <<"federal", "schedule_d", "line_4_short_term_from_6781">>,
       var |-> "schedule_d_line_4"],
      [path |-> <<"federal", "schedule_d", "line_5_short_term_k1_gain">>,
       var |-> "schedule_d_line_5"],
      [path |-> <<"federal", "schedule_d", "line_7_net_short_term_gain">>,
       var |-> "schedule_d_line_7"],
      [path |-> <<"federal", "schedule_d", "line_10_long_term_section_1061_adjustment">>,
       var |-> "schedule_d_line_10"],
      [path |-> <<"federal", "schedule_d", "line_11_long_term_from_6781_and_4797">>,
       var |-> "schedule_d_line_11"],
      [path |-> <<"federal", "schedule_d", "line_12_long_term_k1_gain">>,
       var |-> "schedule_d_line_12"],
      [path |-> <<"federal", "schedule_d", "line_15_net_long_term_gain">>,
       var |-> "schedule_d_line_15"],
      [path |-> <<"federal", "schedule_d", "line_16_net_capital_gain">>,
       var |-> "schedule_d_line_16"],
      [path |-> <<"federal", "form_8960", "line_1_taxable_interest">>,
       var |-> "line_1_taxable_interest"],
      [path |-> <<"federal", "form_8960", "line_2_ordinary_dividends">>,
       var |-> "line_2_ordinary_dividends"],
      [path |-> <<"federal", "form_8960", "line_4a_rental_real_estate_royalties_partnerships">>,
       var |-> "line_4a_rentals_partnerships"],
      [path |-> <<"federal", "form_8960", "line_4b_adjustment_nonsection_1411">>,
       var |-> "line_4b_adjustment"],
      [path |-> <<"federal", "form_8960", "line_4c_net_income_from_rentals">>,
       var |-> "line_4c_net_income"],
      [path |-> <<"federal", "form_8960", "line_5a_net_gain_loss_disposition">>,
       var |-> "line_5a_net_gain"],
      [path |-> <<"federal", "form_8960", "line_5d_net_gain_loss_disposition">>,
       var |-> "line_5d_net_gain"],
      [path |-> <<"federal", "form_8960", "line_8_total_investment_income">>,
       var |-> "line_8_total_investment_income"],
      [path |-> <<"federal", "form_8960", "line_9a_investment_interest_expense">>,
       var |-> "line_9a_investment_interest_expense"],
      [path |-> <<"federal", "form_8960", "line_9b_state_local_foreign_income_tax">>,
       var |-> "line_9b_state_local_foreign_income_tax"],
      [path |-> <<"federal", "form_8960", "line_9c_misc_investment_expenses">>,
       var |-> "line_9c_misc_investment_expenses"],
      [path |-> <<"federal", "form_8960", "line_12_net_investment_income">>,
       var |-> "line_12_net_investment_income"],
      [path |-> <<"federal", "form_8960", "line_13_modified_adjusted_gross_income">>,
       var |-> "line_13_modified_agi"],
      [path |-> <<"federal", "form_8960", "line_15_modified_agi_over_threshold">>,
       var |-> "line_15_agi_over_threshold"],
      [path |-> <<"federal", "form_8960", "line_16_smaller_of_line_12_or_15">>,
       var |-> "line_16_niit_base"],
      [path |-> <<"federal", "form_8960", "line_17_net_investment_income_tax">>,
       var |-> "line_17_niit"],
      [path |-> <<"federal", "schedule_2", "line_12_net_investment_income_tax">>,
       var |-> "line_12_niit"],
      [path |-> <<"federal", "schedule_2", "line_21_other_taxes">>,
       var |-> "line_21_other_taxes"],
      [path |-> <<"federal", "form_1040", "line_1z_wages">>,
       var |-> "line_1z_wages"],
      [path |-> <<"federal", "form_1040", "line_3a_qualified_dividends">>,
       var |-> "line_3a_qualified_dividends"],
      [path |-> <<"federal", "form_1040", "line_5b_pensions_annuities">>,
       var |-> "line_5b_pensions"],
      [path |-> <<"federal", "form_1040", "line_9_total_income">>,
       var |-> "line_9_total_income"],
      [path |-> <<"federal", "form_1040", "line_10_adjustments_to_income">>,
       var |-> "line_26_adjustments"],
      [path |-> <<"federal", "form_1040", "line_11_adjusted_gross_income">>,
       var |-> "line_11_agi"],
      [path |-> <<"federal", "form_1040", "line_12_standard_deduction">>,
       var |-> "line_12_standard_deduction"],
      [path |-> <<"federal", "form_1040", "line_14_total_deductions">>,
       var |-> "line_14_total_deductions"],
      [path |-> <<"federal", "form_1040", "line_15_taxable_income">>,
       var |-> "line_15_taxable_income"],
      [path |-> <<"federal", "form_1040_qualified_dividends_capital_gain_worksheet", "line_25_tax_on_all_income">>,
       var |-> "worksheet_line_25"],
      [path |-> <<"federal", "form_1040", "line_16_tax">>,
       var |-> "line_16_tax"],
      [path |-> <<"federal", "form_1040", "line_18_tax_and_amounts">>,
       var |-> "line_18_tax_and_amounts"],
      [path |-> <<"federal", "form_1040", "line_21_total_credits">>,
       var |-> "line_21_total_credits"],
      [path |-> <<"federal", "form_1040", "line_22_tax_after_credits">>,
       var |-> "line_22_tax_after_credits"],
      [path |-> <<"federal", "form_1040", "line_23_other_taxes">>,
       var |-> "line_23_other_taxes"],
      [path |-> <<"federal", "form_1040", "line_24_total_tax">>,
       var |-> "total_tax"],
      [path |-> <<"federal", "compute_total_tax">>,
       var |-> "total_tax"] >>

\* A faulty run of the check statements: every statement runs and the last
\* mismatch is the one raised.
RunChecksRaisingLast(checks, check_list, locals) ==
    LET outcome == [i \in DOMAIN check_list |->
                       check_compute_line(checks, check_list[i].path,
                                          locals[check_list[i].var])]
        raising == {i \in DOMAIN check_list : ~outcome[i].ok}
        last == IF raising = {} THEN 0
                ELSE CHOOSE i \in raising : \A j \in raising : i >= j
    IN [log |-> [i \in DOMAIN check_list |->
                    [path |-> check_list[i].path, var |-> check_list[i].var,
                     actual |-> locals[check_list[i].var],
                     raised |-> i = last]],
        result |-> IF last = 0 THEN Ok(0) ELSE outcome[last]]

\* Runs the check statements of a pipeline in order: the comparator calls
\* made (log) and Ok, or the first mismatch, after which no statement runs.
RunChecks(checks, check_list, locals) ==
    LET outcome == [i \in DOMAIN check_list |->
                       check_compute_line(checks, check_list[i].path,
                                          locals[check_list[i].var])]
        raising == {i \in DOMAIN check_list : ~outcome[i].ok}
        first == IF raising = {} THEN 0
                 ELSE CHOOSE i \in raising : \A j \in raising : i <= j
        last == IF first = 0 THEN Len(check_list) ELSE first
    IN [log |-> [i \in 1..last |->
                    [path |-> check_list[i].path, var |-> check_list[i].var,
                     actual |-> locals[check_list[i].var],
                     raised |-> i = first]],
        result |-> IF first = 0 THEN Ok(0) ELSE outcome[first]]

NoLocals == [total_tax |-> 0]

\* compute_federal_total_tax(inputs, policy) under the compute-check
\* globals `checks`: its result (the total, or the error raised), the
\* local variables at the end of the computation and the comparator calls.
compute_federal_total_tax(inputs, policy, checks) ==
    LET Return(computed_lines, checked) ==
            [result |-> IF checked.result.ok
                        THEN Ok(computed_lines.val.total_tax)
                        ELSE checked.result,
             finished |-> TRUE,
             locals |-> computed_lines.val, log |-> checked.log]
        Check(computed_lines) ==
            IF ~computed_lines.ok
            THEN [result |-> Raise(computed_lines.err), finished |-> FALSE,
                  locals |-> NoLocals, log |-> <<>>]
            ELSE Return(computed_lines,
                        RunChecks(checks, federal_check_list, computed_lines.val))
    IN Check(federal_compute(inputs, policy))

\* ---------------------------------------------------------------------
\* New York line functions (tax.py 1773-3277)
\* ---------------------------------------------------------------------

\* total = 0; for item in items: total += Decimal(item['amount'])
RECURSIVE SumItemAmounts(_)
SumItemAmounts(items) ==
    IF items = <<>> THEN 0 ELSE Head(items).amount + SumItemAmounts(Tail(items))

\* round_to_dollars(base_tax + (taxable_income - row_min) * rate)
ScheduleRowTax(row, taxable_income) ==
    Units * RoundHalfUp(row.base_tax * row.rate.den
                        + (taxable_income - row.min) * row.rate.num,
                        row.rate.den * Units)

ny_it201_statement_2_line_3_tax_from_rate_schedule(line_38_ny_taxable_income, policy) ==
    LET taxable_income == Max2(line_38_ny_taxable_income, 0)
        schedule == policy.ny_nys_tax_rate_schedule
        i == FirstMatchingRow(schedule, taxable_income, 1)
    IN IF i = 0
       THEN Raise(NoMatchingBracket("NYS", taxable_income))
       ELSE Ok(ScheduleRowTax(schedule[i], taxable_income))

\* The ratio is a number of 1/RatioDen: quantize(Decimal('0.0001'), ROUND_HALF_UP).
ny_it112r_line_26_ratio(line_22_total_income, line_22_other_state_income) ==
    IF line_22_total_income = 0
    THEN 0
    ELSE RoundHalfUp(line_22_other_state_income * RatioDen, line_22_total_income)

\* A faulty IT-112-R line 34: the credit is not limited to the NY tax.
ny_it112r_line_34_resident_credit_unlimited(line_30_total_credit, line_25_ny_tax_payable) ==
    line_30_total_credit

ny_it112r_line_34_resident_credit(line_30_total_credit, line_25_ny_tax_payable) ==
    Min2(line_30_total_credit, line_25_ny_tax_payable)

\* percentages[fund] on the policy's fund -> percentage dict, kept as the
\* sequence of its entries; a percentage is a number of 1/RatioDen.
DictGet(entries, fund) ==
    (CHOOSE i \in DOMAIN entries : entries[i].fund = fund)

\* total += amount * percentage over the items, as a number of
\* 1/(Units * RatioDen).
RECURSIVE BondInterestTotal(_, _)
BondInterestTotal(items, percentages) ==
    IF items = <<>> THEN 0
    ELSE Head(items).amount
             * percentages[DictGet(percentages, Head(items).fund)].percentage
         + BondInterestTotal(Tail(items), percentages)

ny_it201_line_28_us_gov_bond_interest(line_28_us_gov_bond_interest_items, policy) ==
    LET percentages == policy.ny_us_gov_bond_interest_percentages
    IN Units * RoundHalfUp(
           BondInterestTotal(line_28_us_gov_bond_interest_items, percentages),
           RatioDen * Units)

\* A faulty line 19: the adjustments are not subtracted.
ny_it201_line_19_total_income_only(line_17_total_federal_income, line_18_federal_adjustments) ==
    line_17_total_federal_income

ny_it201_line_19_federal_agi(line_17_total_federal_income, line_18_federal_adjustments) ==
    line_17_total_federal_income - line_18_federal_adjustments

ny_it201_line_44_ny_state_tax_after_credits(line_39_nys_tax_on_line_38, line_43_nys_credits_total) ==
    line_39_nys_tax_on_line_38 - line_43_nys_credits_total

ny_it201_line_54_nyc_tax_after_credits(line_52_nyc_tax_before_credits, line_53_nyc_nonrefundable_credits) ==
    line_52_nyc_tax_before_credits - line_53_nyc_nonrefundable_credits

\* The factors are numbers of 1/RatioDen; the interpolated factor is
\* quantized to 0.0001, ROUND_HALF_UP.
ny_it219_line_10_income_factor(line_9_taxable_income, policy) ==
    LET params == policy.ny_it219_income_factor
        lower_threshold == params.lower_threshold
        upper_threshold == params.upper_threshold
        lower_factor == params.lower_factor
        upper_factor == params.upper_factor
    IN IF line_9_taxable_income <= lower_threshold THEN lower_factor
       ELSE IF line_9_taxable_income >= upper_threshold THEN upper_factor
       ELSE RoundHalfUp(
                lower_factor * (upper_threshold - lower_threshold)
                + (line_9_taxable_income - lower_threshold)
                  * (upper_factor - lower_factor),
                upper_threshold - lower_threshold)

ny_it219_line_11_income_based_credit(line_8_total_ubt_credit, line_10_income_factor) ==
    RoundMulRatio(line_8_total_ubt_credit, line_10_income_factor)

ny_it219_line_16_resident_ubt_credit(line_11_income_based_credit, line_15_total_tax) ==
    Min2(line_11_income_based_credit, line_15_total_tax)

\* A faulty NYC lookup: the income is compared with the rows as passed,
\* without being raised to zero first.
ny_it201_line_47a_nyc_resident_tax_unclamped(line_47_nyc_taxable_income, policy) ==
    LET schedule == policy.nyc_resident_tax_rate_schedule
        i == FirstMatchingRow(schedule, line_47_nyc_taxable_income, 1)
    IN IF i = 0
       THEN Raise(NoMatchingBracket("NYC", line_47_nyc_taxable_income))
       ELSE Ok(ScheduleRowTax(schedule[i], line_47_nyc_taxable_income))

ny_it201_line_47a_nyc_resident_tax(line_47_nyc_taxable_income, policy) ==
    LET taxable_income == Max2(line_47_nyc_taxable_income, 0)
        schedule == policy.nyc_resident_tax_rate_schedule
        i == FirstMatchingRow(schedule, taxable_income, 1)
    IN IF i = 0
       THEN Raise(NoMatchingBracket("NYC", taxable_income))
       ELSE Ok(ScheduleRowTax(schedule[i], taxable_income))

\* total += (ordinary_income + guaranteed_payments) * earnings_factor over
\* the items, as a number of 1/(Units * earnings_factor.den).
RECURSIVE NetEarningsTotal(_, _)
NetEarningsTotal(items, earnings_factor) ==
    IF items = <<>> THEN 0
    ELSE (Head(items).ordinary_business_income
          + Head(items).guaranteed_payments_services) * earnings_factor.num
         + NetEarningsTotal(Tail(items), earnings_factor)

ny_it2105_9_worksheet_4a_line_1_net_earnings_zone_1(worksheet_4a_line_1_net_earnings_zone_1_items, policy) ==
    LET earnings_factor == policy.ny_mctmt.earnings_factor
    IN Units * RoundHalfUp(
           NetEarningsTotal(worksheet_4a_line_1_net_earnings_zone_1_items,
                            earnings_factor),
           earnings_factor.den * Units)

\* ---------------------------------------------------------------------
\* compute_ny_total_tax (tax.py 4037-4376)
\* ---------------------------------------------------------------------

\* f'ny_it_201_line_28_us_gov_bond_interest_items_{fund}'
BondInterestItemsTag(fund) ==
    CASE fund = "fund_a" -> "ny_it_201_line_28_us_gov_bond_interest_items_fund_a"
      [] fund = "fund_b" -> "ny_it_201_line_28_us_gov_bond_interest_items_fund_b"
      [] OTHER -> "ny_it_201_line_28_us_gov_bond_interest_items_other"

\* One statement of compute_ny_total_tax, named by the local it assigns,
\* evaluated over the locals e assigned so far; line functions are written
\* out in the arms as in federal_statement.
ny_statement(name, index, policy, e) ==
    CASE name = "k1_box_14a" ->
            tag_total(index, "schedule_se_k1_box_14a_self_employment_earnings",
                TRUE, FALSE)
      [] name = "k1_box_12" ->
            tag_total(index, "section_179_deduction", TRUE, FALSE)
      [] name = "line_2_sched_c_k1" ->
            Ok(federal_schedule_se_line_2_schedule_c_and_k1_profit(
                e.k1_box_14a, e.k1_box_12))
      [] name = "line_6_se_earnings" ->
            Ok(federal_schedule_se_line_6_total_se_earnings(e.line_2_sched_c_k1,
                policy))
      [] name = "line_10_ss_tax" ->
            Ok(federal_schedule_se_line_10_social_security_tax(e.line_6_se_earnings,
                policy))
      [] name = "line_11_medicare" ->
            Ok(federal_schedule_se_line_11_medicare_tax(e.line_6_se_earnings,
                policy))
      [] name = "line_12_se_tax" ->
            Ok(federal_schedule_se_line_12_self_employment_tax(
                e.line_10_ss_tax, e.line_11_medicare))
      [] name = "line_15_deductible_se_tax" ->
            Ok(federal_schedule_1_line_15_deductible_self_employment_tax(e.line_12_se_tax))
      [] name = "line_16_retirement" ->
            \* federal_schedule_1_line_16_self_employed_retirement_contributions
            Ok(round_to_dollars(tag_sum(index,
                "schedule_1_line_16_self_employed_retirement")))
      [] name = "line_17_health_insurance" ->
            \* federal_schedule_1_line_17_self_employed_health_insurance
            Ok(round_to_dollars(tag_sum(index,
                "schedule_1_line_17_self_employed_health_insurance")))
      [] name = "line_26_adjustments" ->
            \* federal_schedule_1_line_26_adjustments_to_income
            Ok(round_to_dollars(e.line_15_deductible_se_tax +
                e.line_16_retirement + e.line_17_health_insurance + 0))
      [] name = "line_1_sched_b_interest" ->
            \* federal_schedule_b_line_1_taxable_interest
            Ok(round_to_dollars(tag_sum(index, "schedule_b_interest")))
      [] name = "line_6_sched_b_ordinary_dividends" ->
            \* federal_schedule_b_line_6_ordinary_dividends
            Ok(round_to_dollars(tag_sum(index,
                "schedule_b_ordinary_dividends")))
      [] name = "line_29a_nonpassive_income" ->
            \* federal_schedule_e_line_29a_total_nonpassive_income
            Ok(round_to_dollars(tag_sum(index, "schedule_e_nonpassive_income")
                + schedule_e_nonpassive_income_from_k1_components(index)))
      [] name = "line_29b_nonpassive_loss_allowed" ->
            \* federal_schedule_e_line_29b_total_nonpassive_loss_allowed
            Ok(round_to_dollars(tag_sum(index,
                "schedule_e_line_29b_nonpassive_loss_allowed")))
      [] name = "line_29b_section_179_deduction" ->
            \* federal_schedule_e_line_29b_total_section_179_deduction
            Ok(round_to_dollars(tag_sum(index, "section_179_deduction")))
      [] name = "line_30_total_income" ->
            \* federal_schedule_e_line_30_total_income
            Ok(round_to_dollars(e.line_29a_nonpassive_income))
      [] name = "line_31_total_losses" ->
            \* federal_schedule_e_line_31_total_losses
            Ok(-round_to_dollars(e.line_29b_nonpassive_loss_allowed +
                e.line_29b_section_179_deduction))
      [] name = "line_32_total_partnership_income" ->
            \* federal_schedule_e_line_32_total_partnership_income
            Ok(e.line_30_total_income + e.line_31_total_losses)
      [] name = "line_5_schedule_1_rental_income" ->
            \* federal_schedule_1_line_5_rental_real_estate_income
            Ok(e.line_32_total_partnership_income)
      [] name = "line_10_schedule_1_additional_income" ->
            \* federal_schedule_1_line_10_additional_income
            Ok(round_to_dollars(e.line_5_schedule_1_rental_income + 0))
      [] name = "form_6781_line_7_total" ->
            \* federal_form_6781_line_7_total_gain_loss_1256
            Ok(round_to_dollars(tag_sum(index, "section_1256_contracts")))
      [] name = "form_6781_line_8_short_term" ->
            \* federal_form_6781_line_8_short_term_portion
            Ok(RoundMulRate(e.form_6781_line_7_total,
                policy.section_1256.short_term_rate))
      [] name = "form_6781_line_9_long_term" ->
            \* federal_form_6781_line_9_long_term_portion
            Ok(RoundMulRate(e.form_6781_line_7_total,
                policy.section_1256.long_term_rate))
      [] name = "schedule_d_line_1a" ->
            \* federal_schedule_d_line_1a_short_term_gain
            Ok(round_to_dollars(tag_sum(index, "schedule_d_line_1a_proceeds") -
                tag_sum(index, "schedule_d_line_1a_cost_basis") +
                tag_sum(index, "schedule_d_line_1a_adjustments")))
      [] name = "schedule_d_line_3" ->
            \* federal_schedule_d_line_3_short_term_section_1061_adjustment
            Ok(round_to_dollars(tag_sum(index,
                "schedule_d_section_1061_adjustment")))
      [] name = "schedule_d_line_4" ->
            \* federal_schedule_d_line_4_short_term_from_6781
            Ok(e.form_6781_line_8_short_term)
      [] name = "schedule_d_line_5" ->
            \* federal_schedule_d_line_5_short_term_k1_gain
            Ok(round_to_dollars(tag_sum(index,
                "schedule_d_k1_short_term_gains")))
      [] name = "schedule_d_line_7" ->
            \* federal_schedule_d_line_7_net_short_term_gain
            Ok(e.schedule_d_line_1a + e.schedule_d_line_3 + e.schedule_d_line_4
                + e.schedule_d_line_5 + 0)
      [] name = "schedule_d_line_10" ->
            \* federal_schedule_d_line_10_long_term_section_1061_adjustment
            Ok(-round_to_dollars(tag_sum(index,
                "schedule_d_section_1061_adjustment")))
      [] name = "schedule_d_line_11" ->
            \* federal_schedule_d_line_11_long_term_from_6781_and_4797
            Ok(round_to_dollars(e.form_6781_line_9_long_term + tag_sum(index,
                "section_1231_gains")))
      [] name = "schedule_d_line_12" ->
            \* federal_schedule_d_line_12_long_term_k1_gain
            Ok(round_to_dollars(tag_sum(index,
                "schedule_d_k1_long_term_gains")))
      [] name = "schedule_d_line_15" ->
            \* federal_schedule_d_line_15_net_long_term_gain
            Ok(e.schedule_d_line_10 + e.schedule_d_line_11 +
                e.schedule_d_line_12)
      [] name = "schedule_d_line_16" ->
            \* federal_schedule_d_line_16_net_capital_gain
            Ok(e.schedule_d_line_7 + e.schedule_d_line_15)
      [] name = "line_1z_wages" ->
            \* federal_form_1040_line_1z_wages
            tag_total(index, "form_1040_line_1z_wages", FALSE, TRUE)
      [] name = "line_5b_pensions" ->
            \* federal_form_1040_line_5b_pensions_annuities
            Ok(round_to_dollars(tag_sum(index, "form_1040_line_5b_pensions")))
      [] name = "line_9_total_income" ->
            \* federal_form_1040_line_9_total_income
            Ok(round_to_dollars(e.line_1z_wages + e.line_1_sched_b_interest +
                e.line_6_sched_b_ordinary_dividends + e.line_5b_pensions +
                e.schedule_d_line_16 + e.line_10_schedule_1_additional_income))
      [] name = "it201_line_17" ->
            \* ny_it201_line_17_total_federal_income
            Ok(e.line_9_total_income)
      [] name = "it201_line_18" ->
            \* ny_it201_line_18_federal_adjustments
            Ok(e.line_26_adjustments)
      [] name = "it201_line_19" ->
            Ok(ny_it201_line_19_federal_agi(e.it201_line_17, e.it201_line_18))
      [] name = "it225_line_1a_items" ->
            Ok(<< [amount |-> tag_sum(index, "ny_it_201_att_line_12_amount")]
                >>)
      [] name = "it225_line_1a" ->
            \* ny_it225_line_1a_additions
            Ok(SumItemAmounts(e.it225_line_1a_items))
      [] name = "it225_line_2" ->
            \* ny_it225_line_2_total_part1_additions
            Ok(e.it225_line_1a)
      [] name = "it225_line_4" ->
            \* ny_it225_line_4_total_part1_additions
            Ok(e.it225_line_2)
      [] name = "it225_line_5a_items" ->
            Ok(<< [amount |-> tag_sum(index, "ny_it_225_line_5a_addition")] >>)
      [] name = "it225_line_5a" ->
            \* ny_it225_line_5a_additions
            Ok(SumItemAmounts(e.it225_line_5a_items))
      [] name = "it225_line_5b_items" ->
            Ok(<< [amount |-> tag_sum(index, "ny_it_225_line_5b_addition")] >>)
      [] name = "it225_line_5b" ->
            \* ny_it225_line_5b_additions
            Ok(SumItemAmounts(e.it225_line_5b_items))
      [] name = "it225_line_6" ->
            \* ny_it225_line_6_total_part2_additions
            Ok(e.it225_line_5a + e.it225_line_5b)
      [] name = "it225_line_8" ->
            \* ny_it225_line_8_total_part2_additions
            Ok(e.it225_line_6)
      [] name = "it225_line_9" ->
            \* ny_it225_line_9_total_additions
            Ok(e.it225_line_4 + e.it225_line_8)
      [] name = "it201_line_23" ->
            \* ny_it201_line_23_other_additions
            Ok(e.it225_line_9)
      [] name = "it201_line_21" ->
            Ok(tag_sum(index, "ny_it_201_line_21_public_employee_414h"))
      [] name = "it201_line_22" ->
            Ok(tag_sum(index, "ny_it_201_line_22_ny_529_distributions"))
      [] name = "it201_line_24" ->
            \* ny_it201_line_24_ny_total_income
            Ok(e.it201_line_19 + e.it201_line_21 + e.it201_line_22 +
                e.it201_line_23)
      [] name = "line_28_items" ->
            Ok([i \in DOMAIN policy.ny_us_gov_bond_interest_percentages |-> LET
                fund == policy.ny_us_gov_bond_interest_percentages[i].fund IN
                [fund |-> fund, amount |-> tag_sum(index,
                BondInterestItemsTag(fund))]])
      [] name = "it201_line_28" ->
            Ok(ny_it201_line_28_us_gov_bond_interest(e.line_28_items, policy))
      [] name = "it201_line_32" ->
            \* ny_it201_line_32_ny_total_subtractions
            Ok(e.it201_line_28)
      [] name = "it201_line_33" ->
            \* ny_it201_line_33_ny_adjusted_gross_income
            Ok(e.it201_line_24 - e.it201_line_32)
      [] name = "it201_line_34" ->
            \* ny_it201_line_34_standard_deduction
            Ok(policy.ny_standard_deduction)
      [] name = "it201_line_35" ->
            \* ny_it201_line_35_ny_taxable_income_before_exemptions
            Ok(e.it201_line_33 - e.it201_line_34)
      [] name = "dependents_count" ->
            tag_total(index, "ny_dependents_count", TRUE, FALSE)
      [] name = "it201_line_36" ->
            \* ny_it201_line_36_dependent_exemptions
            Ok((e.dependents_count * policy.ny_dependent_exemption_amount) \div
                Units)
      [] name = "it201_line_38" ->
            \* ny_it201_line_38_ny_taxable_income
            Ok(e.it201_line_35 - e.it201_line_36)
      [] name = "stmt2_line_3" ->
            ny_it201_statement_2_line_3_tax_from_rate_schedule(e.it201_line_38,
                policy)
      [] name = "stmt2_line_4" ->
            \* ny_it201_statement_2_line_4_recapture_base_amount
            Ok(policy.ny_tax_computation_worksheet_4.recapture_base_amount)
      [] name = "stmt2_line_9" ->
            \* ny_it201_statement_2_line_9_incremental_benefit_addback
            Ok(policy.ny_tax_computation_worksheet_4.incremental_benefit_addback)
      [] name = "it201_line_39" ->
            \* ny_it201_line_39_nys_tax_on_line_38
            Ok(e.stmt2_line_3 + e.stmt2_line_4 + e.stmt2_line_9)
      [] name = "it112r_line_22_total" ->
            \* ny_it112r_line_22_total_income
            Ok(e.it201_line_33)
      [] name = "it112r_line_22_other_state_items" ->
            Ok(<< [amount |-> tag_sum(index,
                "ny_it_112_r_line_22_other_state_income")] >>)
      [] name = "it112r_line_22_other" ->
            \* ny_it112r_line_22_other_state_income
            Ok(SumItemAmounts(e.it112r_line_22_other_state_items))
      [] name = "it112r_line_24_items" ->
            Ok(<< [amount |-> tag_sum(index,
                "ny_it_112_r_line_24_other_state_tax")] >>)
      [] name = "it112r_line_24" ->
            \* ny_it112r_line_24_total_other_state_tax
            Ok(SumItemAmounts(e.it112r_line_24_items))
      [] name = "it112r_line_26" ->
            Ok(ny_it112r_line_26_ratio(e.it112r_line_22_total,
                e.it112r_line_22_other))
      [] name = "it112r_line_27" ->
            \* ny_it112r_line_27_ny_tax_times_ratio
            Ok(RoundMulRatio(e.it201_line_39, e.it112r_line_26))
      [] name = "it112r_line_28" ->
            \* ny_it112r_line_28_smaller_of_line24_or_27
            Ok(Min2(e.it112r_line_24, e.it112r_line_27))
      [] name = "it112r_line_30" ->
            \* ny_it112r_line_30_total_credit
            Ok(e.it112r_line_28)
      [] name = "it112r_line_34" ->
            Ok(ny_it112r_line_34_resident_credit(e.it112r_line_30,
                e.it201_line_39))
      [] name = "it201_line_41" ->
            \* ny_it201_line_41_resident_credit
            Ok(e.it112r_line_34)
      [] name = "it201_line_43" ->
            \* ny_it201_line_43_nys_credits_total
            Ok(e.it201_line_41)
      [] name = "it201_line_44" ->
            Ok(ny_it201_line_44_ny_state_tax_after_credits(e.it201_line_39,
                e.it201_line_43))
      [] name = "it201_line_46" ->
            \* ny_it201_line_46_total_ny_state_taxes
            Ok(e.it201_line_44)
      [] name = "it201_line_47" ->
            \* ny_it201_line_47_nyc_taxable_income
            Ok(e.it201_line_38)
      [] name = "it201_line_47a" ->
            ny_it201_line_47a_nyc_resident_tax(e.it201_line_47, policy)
      [] name = "it201_line_49" ->
            \* ny_it201_line_49_nyc_tax_after_household_credit
            Ok(e.it201_line_47a)
      [] name = "ubt_credit_items" ->
            Ok(<< [amount |-> tag_sum(index, "ny_it_219_line_7_ubt_credit")]
                >>)
      [] name = "it219_line_7" ->
            \* ny_it219_line_7_beneficiary_ubt_credit
            Ok(SumItemAmounts(e.ubt_credit_items))
      [] name = "it219_line_8" ->
            \* ny_it219_line_8_total_ubt_credit
            Ok(e.it219_line_7)
      [] name = "it219_line_9" ->
            \* ny_it219_line_9_taxable_income
            Ok(e.it201_line_47)
      [] name = "it219_line_10" ->
            Ok(ny_it219_line_10_income_factor(e.it219_line_9, policy))
      [] name = "it219_line_11" ->
            Ok(ny_it219_line_11_income_based_credit(e.it219_line_8,
                e.it219_line_10))
      [] name = "it219_line_15" ->
            \* ny_it219_line_15_total_tax
            Ok(e.it201_line_49)
      [] name = "it219_line_16" ->
            Ok(ny_it219_line_16_resident_ubt_credit(e.it219_line_11,
                e.it219_line_15))
      [] name = "att_line_8" ->
            \* ny_it201_att_line_8_nyc_resident_ubt_credit
            Ok(e.it219_line_16)
      [] name = "att_line_10" ->
            \* ny_it201_att_line_10_total_nyc_nonrefundable_credits
            Ok(e.att_line_8)
      [] name = "it201_line_53" ->
            \* ny_it201_line_53_nyc_nonrefundable_credits
            Ok(e.att_line_10)
      [] name = "it201_line_52" ->
            \* ny_it201_line_52_nyc_tax_before_credits
            Ok(e.it201_line_49)
      [] name = "it201_line_54" ->
            Ok(ny_it201_line_54_nyc_tax_after_credits(e.it201_line_52,
                e.it201_line_53))
      [] name = "mctmt_ordinary" ->
            tag_total(index, "mctmt_base_ordinary_income", TRUE, FALSE)
      [] name = "mctmt_guaranteed" ->
            tag_total(index, "mctmt_base_guaranteed_payments", TRUE, FALSE)
      [] name = "mctmt_items" ->
            Ok(<< [ordinary_business_income |-> e.mctmt_ordinary,
                guaranteed_payments_services |-> e.mctmt_guaranteed] >>)
      [] name = "worksheet_4a_line_1" ->
            Ok(ny_it2105_9_worksheet_4a_line_1_net_earnings_zone_1(e.mctmt_items,
                policy))
      [] name = "it201_line_54a" ->
            \* ny_it201_line_54a_mctmt_net_earnings_zone_1
            Ok(e.worksheet_4a_line_1)
      [] name = "it201_line_54c" ->
            \* ny_it201_line_54c_mctmt_zone_1
            Ok(RoundMulRate(e.it201_line_54a, policy.ny_mctmt_rates.zone_1))
      [] name = "it201_line_54e" ->
            \* ny_it201_line_54e_mctmt_total
            Ok(e.it201_line_54c)
      [] name = "it201_line_58" ->
            \* ny_it201_line_58_total_nyc_yonkers_mctmt
            Ok(e.it201_line_54 + e.it201_line_54e)
      [] name = "it201_line_61" ->
            \* ny_it201_line_61_total_taxes
            Ok(e.it201_line_46 + e.it201_line_58)
      [] name = "it201_line_62" ->
            \* ny_it201_line_62_total_taxes
            Ok(e.it201_line_61)

\* The local variables of compute_ny_total_tax in the order in which its
\* statements assign them.
ny_compute_order == <<
      "k1_box_14a", "k1_box_12", "line_2_sched_c_k1", "line_6_se_earnings",
      "line_10_ss_tax", "line_11_medicare", "line_12_se_tax",
      "line_15_deductible_se_tax", "line_16_retirement",
      "line_17_health_insurance", "line_26_adjustments",
      "line_1_sched_b_interest", "line_6_sched_b_ordinary_dividends",
      "line_29a_nonpassive_income", "line_29b_nonpassive_loss_allowed",
      "line_29b_section_179_deduction", "line_30_total_income",
      "line_31_total_losses", "line_32_total_partnership_income",
      "line_5_schedule_1_rental_income",
      "line_10_schedule_1_additional_income", "form_6781_line_7_total",
      "form_6781_line_8_short_term", "form_6781_line_9_long_term",
      "schedule_d_line_1a", "schedule_d_line_3", "schedule_d_line_4",
      "schedule_d_line_5", "schedule_d_line_7", "schedule_d_line_10",
      "schedule_d_line_11", "schedule_d_line_12", "schedule_d_line_15",
      "schedule_d_line_16", "line_1z_wages", "line_5b_pensions",
      "line_9_total_income", "it201_line_17", "it201_line_18", "it201_line_19",
      "it225_line_1a_items", "it225_line_1a", "it225_line_2", "it225_line_4",
      "it225_line_5a_items", "it225_line_5a", "it225_line_5b_items",
      "it225_line_5b", "it225_line_6", "it225_line_8", "it225_line_9",
      "it201_line_23", "it201_line_21", "it201_line_22", "it201_line_24",
      "line_28_items", "it201_line_28", "it201_line_32", "it201_line_33",
      "it201_line_34", "it201_line_35", "dependents_count", "it201_line_36",
      "it201_line_38", "stmt2_line_3", "stmt2_line_4", "stmt2_line_9",
      "it201_line_39", "it112r_line_22_total",
      "it112r_line_22_other_state_items", "it112r_line_22_other",
      "it112r_line_24_items", "it112r_line_24", "it112r_line_26",
      "it112r_line_27", "it112r_line_28", "it112r_line_30", "it112r_line_34",
      "it201_line_41", "it201_line_43", "it201_line_44", "it201_line_46",
      "it201_line_47", "it201_line_47a", "it201_line_49", "ubt_credit_items",
      "it219_line_7", "it219_line_8", "it219_line_9", "it219_line_10",
      "it219_line_11", "it219_line_15", "it219_line_16", "att_line_8",
      "att_line_10", "it201_line_53", "it201_line_52", "it201_line_54",
      "mctmt_ordinary", "mctmt_guaranteed", "mctmt_items",
      "worksheet_4a_line_1", "it201_line_54a", "it201_line_54c",
      "it201_line_54e", "it201_line_58", "it201_line_61", "it201_line_62" >>

\* Runs the statements lo..hi of compute_ny_total_tax on the outcome r of the
\* statements before them: Ok(the local variables after them) or the error
\* of the first statement that raises.
RECURSIVE ny_statements(_, _, _, _, _)
ny_statements(lo, hi, index, policy, r) ==
    IF ~r.ok
    THEN r
    ELSE IF lo = hi
         THEN LET Assign(name, assigned) ==
                      IF assigned.ok
                      THEN Ok(r.val @@ (name :> assigned.val))
                      ELSE assigned
              IN IF ~(statement_reads.ny[ny_compute_order[lo]] \subseteq DOMAIN r.val)
                 THEN Raise([type |-> "UnboundLocalError",
                             statement |-> ny_compute_order[lo]])
                 ELSE Assign(ny_compute_order[lo],
                             ny_statement(ny_compute_order[lo], index, policy, r.val))
         ELSE ny_statements(
                  (lo + hi) \div 2 + 1, hi, index, policy,
                  ny_statements(lo, (lo + hi) \div 2, index, policy, r))

\* The statements of compute_ny_total_tax up to the total.
ny_compute(inputs, policy) ==
    ny_statements(1, Len(ny_compute_order), build_inputs_index(inputs),
                   policy, Ok(<<>>))

\* The _check_compute_line statements of compute_ny_total_tax, in source
\* order: the path checked and the local variable compared.
ny_check_list == <<
      [path |-> <<"ny", "it_201", "line_17_total_federal_income">>,
       var |-> "it201_line_17"],
      [path |-> <<"ny", "it_201", "line_18_federal_adjustments">>,
       var |-> "it201_line_18"],
      [path |-> <<"ny", "it_201", "line_19_federal_agi">>,
       var |-> "it201_line_19"],
      [path |-> <<"ny", "it_225", "line_1a_additions">>,
       var |-> "it225_line_1a"],
      [path |-> <<"ny", "it_225", "line_2_total_part1_additions">>,
       var |-> "it225_line_2"],
      [path |-> <<"ny", "it_225", "line_4_total_part1_additions">>,
       var |-> "it225_line_4"],
      [path |-> <<"ny", "it_225", "line_5a_additions">>,
       var |-> "it225_line_5a"],
      [path |-> <<"ny", "it_225", "line_5b_additions">>,
       var |-> "it225_line_5b"],
      [path |-> <<"ny", "it_225", "line_6_total_part2_additions">>,
       var |-> "it225_line_6"],
      [path |-> <<"ny", "it_225", "line_8_total_part2_additions">>,
       var |-> "it225_line_8"],
      [path |-> <<"ny", "it_225", "line_9_total_additions">>,
       var |-> "it225_line_9"],
      [path |-> <<"ny", "it_201", "line_23_other_additions">>,
       var |-> "it201_line_23"],
      [path |-> <<"ny", "it_201", "line_24_ny_total_income">>,
       var |-> "it201_line_24"],
      [path |-> <<"ny", "it_201", "line_28_us_gov_bond_interest">>,
       var |-> "it201_line_28"],
      [path |-> <<"ny", "it_201", "line_32_ny_total_subtractions">>,
       var |-> "it201_line_32"],
      [path |-> <<"ny", "it_201", "line_33_ny_adjusted_gross_income">>,
       var |-> "it201_line_33"],
      [path |-> <<"ny", "it_201", "line_34_standard_deduction">>,
       var |-> "it201_line_34"],
      [path |-> <<"ny", "it_201", "line_35_ny_taxable_income_before_exemptions">>,
       var |-> "it201_line_35"],
      [path |-> <<"ny", "it_201", "line_36_dependent_exemptions">>,
       var |-> "it201_line_36"],
      [path |-> <<"ny", "it_201", "line_38_ny_taxable_income">>,
       var |-> "it201_line_38"],
      [path |-> <<"ny", "it_201", "statement_2_tax_computation_worksheet_4", "line_3_tax_from_rate_schedule">>,
       var |-> "stmt2_line_3"],
      [path |-> <<"ny", "it_201", "statement_2_tax_computation_worksheet_4", "line_4_recapture_base_amount">>,
       var |-> "stmt2_line_4"],
      [path |-> <<"ny", "it_201", "statement_2_tax_computation_worksheet_4", "line_9_incremental_benefit_addback">>,
       var |-> "stmt2_line_9"],
      [path |-> <<"ny", "it_201", "line_39_nys_tax_on_line_38">>,
       var |-> "it201_line_39"],
      [path |-> <<"ny", "it_112_r", "line_22_total_income">>,
       var |-> "it112r_line_22_total"],
      [path |-> <<"ny", "it_112_r", "line_22_other_state_income">>,
       var |-> "it112r_line_22_other"],
      [path |-> <<"ny", "it_112_r", "line_24_total_other_state_tax">>,
       var |-> "it112r_line_24"],
      [path |-> <<"ny", "it_112_r", "line_26_ratio">>,
       var |-> "it112r_line_26"],
      [path |-> <<"ny", "it_112_r", "line_27_ny_tax_times_ratio">>,
       var |-> "it112r_line_27"],
      [path |-> <<"ny", "it_112_r", "line_28_smaller_of_line24_or_27">>,
       var |-> "it112r_line_28"],
      [path |-> <<"ny", "it_112_r", "line_30_total_credit">>,
       var |-> "it112r_line_30"],
      [path |-> <<"ny", "it_112_r", "line_34_resident_credit">>,
       var |-> "it112r_line_34"],
      [path |-> <<"ny", "it_201", "line_41_resident_credit">>,
       var |-> "it201_line_41"],
      [path |-> <<"ny", "it_201", "line_43_nys_credits_total">>,
       var |-> "it201_line_43"],
      [path |-> <<"ny", "it_201", "line_44_ny_state_tax_after_credits">>,
       var |-> "it201_line_44"],
      [path |-> <<"ny", "it_201", "line_46_total_ny_state_taxes">>,
       var |-> "it201_line_46"],
      [path |-> <<"ny", "it_201", "line_47_nyc_taxable_income">>,
       var |-> "it201_line_47"],
      [path |-> <<"ny", "it_201", "line_47a_nyc_resident_tax">>,
       var |-> "it201_line_47a"],
      [path |-> <<"ny", "it_201", "line_49_nyc_tax_after_household_credit">>,
       var |-> "it201_line_49"],
      [path |-> <<"ny", "it_219", "line_7_beneficiary_ubt_credit">>,
       var |-> "it219_line_7"],
      [path |-> <<"ny", "it_219", "line_8_total_ubt_credit">>,
       var |-> "it219_line_8"],
      [path |-> <<"ny", "it_219", "line_9_taxable_income">>,
       var |-> "it219_line_9"],
      [path |-> <<"ny", "it_219", "line_10_income_factor">>,
       var |-> "it219_line_10"],
      [path |-> <<"ny", "it_219", "line_11_income_based_credit">>,
       var |-> "it219_line_11"],
      [path |-> <<"ny", "it_219", "line_15_total_tax">>,
       var |-> "it219_line_15"],
      [path |-> <<"ny", "it_219", "line_16_resident_ubt_credit">>,
       var |-> "it219_line_16"],
      [path |-> <<"ny", "it_201_att", "line_8_nyc_resident_ubt_credit">>,
       var |-> "att_line_8"],
      [path |-> <<"ny", "it_201_att", "line_10_total_nyc_nonrefundable_credits">>,
       var |-> "att_line_10"],
      [path |-> <<"ny", "it_201", "line_52_nyc_tax_before_credits">>,
       var |-> "it201_line_52"],
      [path |-> <<"ny", "it_201", "line_53_nyc_nonrefundable_credits">>,
       var |-> "it201_line_53"],
      [path |-> <<"ny", "it_201", "line_54_nyc_tax_after_credits">>,
       var |-> "it201_line_54"],
      [path |-> <<"ny", "it_2105_9", "worksheet_4a_line_1_net_earnings_zone_1">>,
       var |-> "worksheet_4a_line_1"],
      [path |-> <<"ny", "it_201", "line_54a_mctmt_net_earnings_zone_1">>,
       var |-> "it201_line_54a"],
      [path |-> <<"ny", "it_201", "line_54c_mctmt_zone_1">>,
       var |-> "it201_line_54c"],
      [path |-> <<"ny", "it_201", "line_54e_mctmt_total">>,
       var |-> "it201_line_54e"],
      [path |-> <<"ny", "it_201", "line_58_total_nyc_yonkers_mctmt">>,
       var |-> "it201_line_58"],
      [path |-> <<"ny", "it_201", "line_61_total_taxes">>,
       var |-> "it201_line_61"],
      [path |-> <<"ny", "it_201", "line_62_total_taxes">>,
       var |-> "it201_line_62"],
      [path |-> <<"ny", "compute_total_tax">>,
       var |-> "it201_line_62"] >>

NoNYLocals == [it201_line_62 |-> 0]

\* compute_ny_total_tax(inputs, policy) under the compute-check globals
\* `checks`: result, local variables and comparator calls, as for
\* compute_federal_total_tax.
compute_ny_total_tax(inputs, policy, checks) ==
    LET Return(computed_lines, checked) ==
            [result |-> IF checked.result.ok
                        THEN Ok(computed_lines.val.it201_line_62)
                        ELSE checked.result,
             finished |-> TRUE,
             locals |-> computed_lines.val, log |-> checked.log]
        Check(computed_lines) ==
            IF ~computed_lines.ok
            THEN [result |-> Raise(computed_lines.err), finished |-> FALSE,
                  locals |-> NoNYLocals, log |-> <<>>]
            ELSE Return(computed_lines,
                        RunChecks(checks, ny_check_list, computed_lines.val))
    IN Check(ny_compute(inputs, policy))

\* ---------------------------------------------------------------------
\* compute_all_taxes (tax.py 4379-4392)
\* ---------------------------------------------------------------------

NotInvoked ==
    [result |-> Ok(0), finished |-> FALSE, locals |-> NoLocals, log |-> <<>>]

\* A faulty compute_all_taxes: when the NY pipeline raises, the federal
\* total is returned with a NY total of zero.
compute_all_taxes_zero_filled(inputs, policy, checks) ==
    LET AfterNY(federal, ny) ==
            [result |-> Ok([federal |-> federal.result.val,
                            ny |-> IF ny.result.ok THEN ny.result.val ELSE 0,
                            total |-> federal.result.val
                                      + (IF ny.result.ok THEN ny.result.val ELSE 0)]),
             federal |-> federal, ny_invoked |-> TRUE, ny |-> ny]
        AfterFederal(federal) ==
            IF ~federal.result.ok
            THEN [result |-> federal.result, federal |-> federal,
                  ny_invoked |-> FALSE, ny |-> NotInvoked]
            ELSE AfterNY(federal, compute_ny_total_tax(inputs, policy, checks))
    IN AfterFederal(compute_federal_total_tax(inputs, policy, checks))

\* compute_all_taxes(inputs, policy): the dict returned, or the error of
\* the pipeline that raised; federal / ny are the two pipeline invocations
\* (ny is not invoked when federal raises).
compute_all_taxes(inputs, policy, checks) ==
    LET AfterNY(federal, ny) ==
            IF ~ny.result.ok
            THEN [result |-> ny.result, federal |-> federal,
                  ny_invoked |-> TRUE, ny |-> ny]
            ELSE [result |-> Ok([federal |-> federal.result.val,
                                 ny |-> ny.result.val,
                                 total |-> federal.result.val + ny.result.val]),
                  federal |-> federal, ny_invoked |-> TRUE, ny |-> ny]
        AfterFederal(federal) ==
            IF ~federal.result.ok
            THEN [result |-> federal.result, federal |-> federal,
                  ny_invoked |-> FALSE, ny |-> NotInvoked]
            ELSE AfterNY(federal, compute_ny_total_tax(inputs, policy, checks))
    IN AfterFederal(compute_federal_total_tax(inputs, policy, checks))

\* ---------------------------------------------------------------------
\* The marginal rate table by input (tax.py 4401-4476)
\* ---------------------------------------------------------------------

\* _compute_marginals: the federal and the NY marginal and their total, as
\* numbers of 1/(2 x delta), or the error of the first pipeline call that
\* raises (federal plus, federal minus, NY plus, NY minus).
compute_marginals(plus_inputs, minus_inputs, policy, checks) ==
    LET Marginals(federal_plus, federal_minus, state_plus, state_minus) ==
            IF ~federal_plus.ok THEN federal_plus
            ELSE IF ~federal_minus.ok THEN federal_minus
            ELSE IF ~state_plus.ok THEN state_plus
            ELSE IF ~state_minus.ok THEN state_minus
            ELSE Ok([marginal_federal |-> federal_plus.val - federal_minus.val,
                     state_marginals |-> << state_plus.val - state_minus.val >>,
                     marginal_total |-> (federal_plus.val - federal_minus.val)
                                        + (state_plus.val - state_minus.val)])
    IN Marginals(compute_federal_total_tax(plus_inputs, policy, checks).result,
                 compute_federal_total_tax(minus_inputs, policy, checks).result,
                 compute_ny_total_tax(plus_inputs, policy, checks).result,
                 compute_ny_total_tax(minus_inputs, policy, checks).result)

\* The assignment reaching item i of every source that has one.
perturbed_copy_every_source(inputs, s, i, amount) ==
    [inputs EXCEPT !.sources =
        [t \in DOMAIN inputs.sources |->
            IF i \in DOMAIN inputs.sources[t].items
            THEN [inputs.sources[t] EXCEPT !.items[i].Amount = amount]
            ELSE inputs.sources[t]]]

\* A deep copy of the inputs in which item i of source s has the given
\* Amount (copy.deepcopy, then the assignment to [source][i]['Amount']).
perturbed_copy(inputs, s, i, amount) ==
    [inputs EXCEPT !.sources[s].items[i].Amount = amount]

\* The loops of marginal_rate_table_by_input from item i of source s on:
\* Ok(the rows) or the error raised while a row was computed. An item whose
\* Amount does not parse gives a blank row; any other item gives the
\* marginals of two deep copies of the inputs with its Amount moved by
\* delta. Every source holds a list, every item is a dict. Next to its
\* rates a row records the two copies the pipelines ran on.
RECURSIVE by_input_rows(_, _, _, _, _, _)
by_input_rows(inputs, policy, delta, checks, s, i) ==
    IF s > Len(inputs.sources) THEN Ok(<<>>)
    ELSE IF i > Len(inputs.sources[s].items)
    THEN by_input_rows(inputs, policy, delta, checks, s + 1, 1)
    ELSE LET item == inputs.sources[s].items[i]
             Prepend(row, rest) == IF rest.ok THEN Ok(<<row>> \o rest.val) ELSE rest
             Rated(plus_inputs, minus_inputs, marginals) ==
                 IF ~marginals.ok
                 THEN marginals
                 ELSE Prepend([source |-> inputs.sources[s].source, item |-> item,
                               blank |-> FALSE, marginals |-> marginals.val,
                               plus_inputs |-> plus_inputs,
                               minus_inputs |-> minus_inputs],
                              by_input_rows(inputs, policy, delta, checks, s, i + 1))
             RateRow(plus_inputs, minus_inputs) ==
                 Rated(plus_inputs, minus_inputs,
                       compute_marginals(plus_inputs, minus_inputs, policy, checks))
         IN IF ~item.parses
            THEN Prepend([source |-> inputs.sources[s].source, item |-> item,
                          blank |-> TRUE,
                          marginals |-> [marginal_federal |-> 0,
                                         state_marginals |-> <<0>>,
                                         marginal_total |-> 0]],
                         by_input_rows(inputs, policy, delta, checks, s, i + 1))
            ELSE RateRow(perturbed_copy(inputs, s, i, item.Amount + delta),
                         perturbed_copy(inputs, s, i, item.Amount - delta))

\* The rows after the header line.
marginal_rate_table_by_input(inputs, policy, delta, checks) ==
    IF delta <= 0
    THEN Raise([type |-> "ValueError", message |-> "delta must be positive"])
    ELSE by_input_rows(inputs, policy, delta, checks, 1, 1)

\* ---------------------------------------------------------------------
\* The marginal rate table by tag (tax.py 4479-4578)
\* ---------------------------------------------------------------------

\* A faulty shock: the Amount of the first fact bearing the tag is moved
\* in place of a synthetic fact being added.
shocked_copy_first_bearer(inputs, tag, amount) ==
    LET bearers == {<<s, i>> \in (DOMAIN inputs.sources) \X (1..8) :
                       /\ i \in DOMAIN inputs.sources[s].items
                       /\ inputs.sources[s].items[i].parses
                       /\ TagCount(inputs.sources[s].items[i].Tags, tag) > 0}
        first == CHOOSE b \in bearers :
                     \A c \in bearers : b[1] < c[1] \/ (b[1] = c[1] /\ b[2] <= c[2])
    IN [inputs EXCEPT !.sources[first[1]].items[first[2]].Amount = @ + amount]

\* A deep copy of the inputs to which one synthetic fact of the given
\* amount, bearing the tag alone, is added under the first of the keys
\* '__MARGINAL_SHOCK__', '__MARGINAL_SHOCK___X', ... that names no
\* source of the inputs.
shocked_copy(inputs, tag, amount) ==
    LET present == {inputs.sources[s].source : s \in DOMAIN inputs.sources}
        RECURSIVE free_key(_)
        free_key(shock_source) ==
            IF shock_source \in present
            THEN free_key(shock_source \o "_X")
            ELSE shock_source
    IN [inputs EXCEPT !.sources =
           @ \o << [source |-> free_key("__MARGINAL_SHOCK__"),
                    items |-> << [Amount |-> amount, Tags |-> <<tag>>,
                                  parses |-> TRUE] >>] >>]

\* The rows after the header line, or the error raised while a row was
\* computed: one row per tag in sorted order, blank when no fact bearing
\* the tag has an Amount that parses. Next to its rates a row records the
\* two copies the pipelines ran on. sorted_tags lists the tags of the
\* model's returns in the order of Python's sorted().
marginal_rate_table_by_tag(inputs, policy, delta, checks) ==
    LET sorted_tags == << "form_1040_line_11_adjusted_gross_income",
                          "form_1040_line_12_deductions",
                          "form_1040_line_16_tax",
                          "form_1040_line_1z_wages",
                          "form_8960_line_8_total_investment_income",
                          "form_8960_line_9b_state_local_foreign_income_tax",
                          "mctmt_base_guaranteed_payments",
                          "mctmt_base_ordinary_income",
                          "memo",
                          "ny_dependents_count",
                          "schedule_b_interest",
                          "schedule_se_k1_box_14a_self_employment_earnings",
                          "section_179_deduction",
                          "w2_box_5_medicare_wages" >>
        tagged_items == build_inputs_index(inputs).by_tag
        RECURSIVE rows(_)
        rows(t) ==
            IF t > Len(sorted_tags) THEN Ok(<<>>)
            ELSE IF sorted_tags[t] \notin DOMAIN tagged_items THEN rows(t + 1)
            ELSE LET tag == sorted_tags[t]
                     records == tagged_items[tag]
                     numeric_records == SelectSeq(records, LAMBDA item : item.parses)
                     row == [tag |-> tag, num_inputs |-> Len(records),
                             total_amount |-> SumAmounts(numeric_records, FALSE)]
                     plus_inputs == shocked_copy(inputs, tag, delta)
                     minus_inputs == shocked_copy(inputs, tag, -delta)
                     Append1(made, rest) ==
                         IF rest.ok THEN Ok(<<made>> \o rest.val) ELSE rest
                     Rated(marginals) ==
                         IF ~marginals.ok THEN marginals
                         ELSE Append1(row @@ [blank |-> FALSE,
                                              marginals |-> marginals.val,
                                              plus_inputs |-> plus_inputs,
                                              minus_inputs |-> minus_inputs],
                                      rows(t + 1))
                 IN IF numeric_records = <<>>
                    THEN Append1(row @@ [blank |-> TRUE,
                                         marginals |-> [marginal_federal |-> 0,
                                                        state_marginals |-> <<0>>,
                                                        marginal_total |-> 0]],
                                 rows(t + 1))
                    ELSE Rated(compute_marginals(plus_inputs, minus_inputs,
                                                 policy, checks))
    IN IF delta <= 0
       THEN Raise([type |-> "ValueError", message |-> "delta must be positive"])
       ELSE rows(1)

\* ---------------------------------------------------------------------
\* Policies (policy_<year>.json), amounts in whole dollars
\* ---------------------------------------------------------------------

Rate(num, den) == [num |-> num, den |-> den]

Row(min, max, rate, subtract_amount) ==
    [min |-> min, max |-> max, no_max |-> FALSE, rate |-> rate,
     subtract_amount |-> subtract_amount, base_tax |-> 0]

LastRow(min, rate, subtract_amount) ==
    [min |-> min, max |-> 0, no_max |-> TRUE, rate |-> rate,
     subtract_amount |-> subtract_amount, base_tax |-> 0]

NYRow(min, max, base_tax, rate) ==
    [min |-> min, max |-> max, no_max |-> FALSE, rate |-> rate,
     subtract_amount |-> 0, base_tax |-> base_tax]

NYLastRow(min, base_tax, rate) ==
    [min |-> min, max |-> 0, no_max |-> TRUE, rate |-> rate,
     subtract_amount |-> 0, base_tax |-> base_tax]

BasePolicy == [
    self_employment_tax |-> [
        earnings_factor |-> Rate(9235, 10000),
        social_security_wage_base |-> Dollars(60),
        social_security_rate |-> Rate(124, 1000),
        medicare_rate |-> Rate(29, 1000)],
    additional_medicare_tax |-> [rate |-> Rate(9, 1000), threshold |-> Dollars(50)],
    state_local_tax_deduction |-> [cap |-> Dollars(10)],
    section_1256 |-> [short_term_rate |-> Rate(40, 100),
                      long_term_rate |-> Rate(60, 100)],
    standard_deduction |-> Dollars(20),
    tax_computation_worksheet |-> [
        min_income |-> Dollars(30),
        sections |-> << Row(Dollars(30), Dollars(60), Rate(20, 100), Dollars(2)),
                        LastRow(Dollars(60), Rate(30, 100), Dollars(8)) >>],
    capital_gains |-> [zero_rate_threshold |-> Dollars(40),
                       twenty_rate_threshold |-> Dollars(150),
                       rate_15 |-> Rate(15, 100), rate_20 |-> Rate(20, 100)],
    net_investment_income_tax |-> [threshold |-> Dollars(90), rate |-> Rate(38, 1000)],
    ny_nys_tax_rate_schedule |-> <<
        NYRow(Dollars(0), Dollars(50), Dollars(0), Rate(4, 100)),
        NYLastRow(Dollars(50), Dollars(2), Rate(6, 100)) >>,
    nyc_resident_tax_rate_schedule |-> <<
        NYRow(Dollars(0), Dollars(50), Dollars(0), Rate(3, 100)),
        NYLastRow(Dollars(50), Dollars(2), Rate(4, 100)) >>,
    ny_tax_computation_worksheet_4 |-> [
        recapture_base_amount |-> Dollars(2),
        incremental_benefit_addback |-> Dollars(1)],
    ny_us_gov_bond_interest_percentages |-> <<
        [fund |-> "fund_a", percentage |-> 4500],
        [fund |-> "fund_b", percentage |-> 10000] >>,
    ny_dependent_exemption_amount |-> Dollars(1),
    ny_standard_deduction |-> Dollars(16),
    ny_it219_income_factor |-> [
        lower_threshold |-> Dollars(42), upper_threshold |-> Dollars(142),
        lower_factor |-> 10000, upper_factor |-> 2300],
    ny_mctmt_rates |-> [zone_1 |-> Rate(6, 1000)],
    ny_mctmt |-> [earnings_factor |-> Rate(9235, 10000)]]

\* The worksheet applies from zero and its rows cover every income.
TotalWorksheetPolicy == [BasePolicy EXCEPT
    !.tax_computation_worksheet = [
        min_income |-> Dollars(0),
        sections |-> << Row(Dollars(0), Dollars(60), Rate(20, 100), Dollars(0)),
                        LastRow(Dollars(60), Rate(30, 100), Dollars(6)) >>]]

\* The worksheet rows leave the incomes between 100 and 110 dollars, and
\* the NYC schedule the incomes above 40 dollars, without a row.
GapPolicy == [BasePolicy EXCEPT
    !.tax_computation_worksheet = [
        min_income |-> Dollars(30),
        sections |-> << Row(Dollars(30), Dollars(100), Rate(20, 100), Dollars(2)),
                        LastRow(Dollars(110), Rate(30, 100), Dollars(8)) >>],
    !.nyc_resident_tax_rate_schedule = <<
        NYRow(Dollars(0), Dollars(40), Dollars(0), Rate(3, 100)) >>]

\* ---------------------------------------------------------------------
\* Fixtures: the inputs, policy and expected documents of a year
\* (private/inputs_<year>.json, policy_<year>.json, private/expected_<year>.json)
\* ---------------------------------------------------------------------

HalfDollar == Units \div 2

Fact(amount, tags) == [Amount |-> amount, Tags |-> tags, parses |-> TRUE]

\* The facts every complete return carries: the K-1 amounts, the W-2 wages,
\* the NY dependents count and the MCTMT bases.
K1Facts == <<
    Fact(Dollars(100), <<"schedule_se_k1_box_14a_self_employment_earnings">>),
    Fact(Dollars(10), <<"section_179_deduction">>),
    Fact(Dollars(80), <<"mctmt_base_ordinary_income">>),
    Fact(Dollars(20), <<"mctmt_base_guaranteed_payments">>) >>

W2Facts == <<
    Fact(Dollars(80), <<"form_1040_line_1z_wages", "w2_box_5_medicare_wages">>) >>

NYFacts == << Fact(Dollars(2), <<"ny_dependents_count">>) >>

\* The facts a return may carry in addition: overrides (whole, fractional,
\* zero and cancelling amounts), deductions and investment income.
ExtraFactPool == <<
    Fact(Dollars(50) + HalfDollar, <<"form_1040_line_11_adjusted_gross_income">>),
    Fact(Dollars(125), <<"form_1040_line_11_adjusted_gross_income">>),
    Fact(-Dollars(125), <<"form_1040_line_11_adjusted_gross_income">>),
    Fact(0, <<"form_1040_line_11_adjusted_gross_income">>),
    Fact(Dollars(40), <<"form_1040_line_11_adjusted_gross_income">>),
    Fact(Dollars(25) + HalfDollar, <<"form_1040_line_12_deductions">>),
    Fact(0, <<"form_1040_line_12_deductions">>),
    Fact(Dollars(14), <<"form_8960_line_9b_state_local_foreign_income_tax">>),
    Fact(Dollars(6) + 1, <<"form_8960_line_9b_state_local_foreign_income_tax">>),
    Fact(Dollars(9) + 1, <<"form_1040_line_16_tax">>),
    Fact(0, <<"form_1040_line_16_tax">>),
    Fact(Dollars(30), <<"schedule_b_interest">>),
    Fact(Dollars(5000), <<"form_8960_line_8_total_investment_income">>) >>

RECURSIVE PickFacts(_, _, _)
PickFacts(pool, chosen, i) ==
    IF i > Len(pool) THEN <<>>
    ELSE (IF i \in chosen THEN <<pool[i]>> ELSE <<>>) \o PickFacts(pool, chosen, i + 1)

\* The inputs document as the dict of its sources.
InputsDict(k1, w2, ny, extra) ==
    [form |-> "dict",
     sources |-> << [source |-> "k1", items |-> k1],
                    [source |-> "w2", items |-> w2],
                    [source |-> "ny", items |-> ny],
                    [source |-> "adjustments", items |-> extra] >>]

\* The same document as the legacy flat list.
InputsList(k1, w2, ny, extra) ==
    [form |-> "list", items |-> k1 \o w2 \o ny \o extra]

BaseInputs == InputsDict(K1Facts, W2Facts, NYFacts, <<>>)

\* Complete returns with up to MaxExtraFacts of the additional facts.
RichInputs ==
    {InputsDict(K1Facts, W2Facts, NYFacts, PickFacts(ExtraFactPool, chosen, 1)) :
        chosen \in {S \in SUBSET DOMAIN ExtraFactPool : Cardinality(S) <= MaxExtraFacts}}

\* Returns from which one required fact is missing.
IncompleteInputs ==
    {InputsDict(PickFacts(K1Facts, DOMAIN K1Facts \ {i}, 1), W2Facts, NYFacts, <<>>) :
        i \in DOMAIN K1Facts}
    \cup {InputsDict(K1Facts, W2Facts, <<>>, <<>>),
          InputsList(K1Facts, <<>>, <<>>, <<>>)}

\* Complete returns whose dependents count is a single fact of amount zero,
\* or two facts of amount one.
CountInputs ==
    {InputsDict(K1Facts, W2Facts, << Fact(0, <<"ny_dependents_count">>) >>, <<>>),
     InputsList(K1Facts, W2Facts,
                << Fact(Dollars(1), <<"ny_dependents_count">>),
                   Fact(Dollars(1), <<"ny_dependents_count">>) >>, <<>>)}

\* Wages-only returns: with a zero-amount K-1 box 14a fact and no other K-1
\* fact, with zero-amount facts for both required K-1 tags, and with no
\* K-1 fact at all.
WagesOnlyInputs ==
    {InputsList(<< Fact(0, <<"schedule_se_k1_box_14a_self_employment_earnings">>) >>,
                W2Facts, <<>>, <<>>),
     InputsList(<< Fact(0, <<"schedule_se_k1_box_14a_self_employment_earnings">>),
                   Fact(0, <<"section_179_deduction">>) >>, W2Facts, <<>>, <<>>),
     InputsList(<<>>, W2Facts, <<>>, <<>>)}

\* Complete returns whose line 11 override is next to the derived adjusted
\* gross income of 165 dollars: it rounds to it, or is a dollar less.
NearDerivedOverrideInputs ==
    {InputsDict(K1Facts, W2Facts, NYFacts,
                << Fact(v, <<"form_1040_line_11_adjusted_gross_income">>) >>) :
        v \in {Dollars(164) + HalfDollar, Dollars(164)}}

\* Complete returns with qualified dividends that leave, of the taxable
\* income of 145 dollars, 45 or 5 dollars on worksheet line 5, without and
\* with a line 16 override.
QualifiedDividendInputs ==
    {InputsDict(K1Facts, W2Facts, NYFacts,
                << Fact(q, <<"form_1040_line_3a_qualified_dividends">>) >> \o extra) :
        q \in {Dollars(100), Dollars(140)},
        extra \in {<<>>, << Fact(Dollars(9) + 1, <<"form_1040_line_16_tax">>) >>}}

\* Complete returns whose section 179 deduction is the K-1 box 14a
\* earnings or more: Schedule SE line 2 is 0, -0.25, -40, -40.50 and -100
\* dollars.
NoProfitInputs ==
    {InputsDict(<< Fact(p[1], <<"schedule_se_k1_box_14a_self_employment_earnings">>),
                   Fact(p[2], <<"section_179_deduction">>),
                   Fact(Dollars(80), <<"mctmt_base_ordinary_income">>),
                   Fact(Dollars(20), <<"mctmt_base_guaranteed_payments">>) >>,
                W2Facts, NYFacts, <<>>) :
        p \in {<<Dollars(10), Dollars(10)>>, <<Dollars(10), Dollars(10) + 1>>,
               <<Dollars(10), Dollars(50)>>, <<Dollars(10), Dollars(50) + HalfDollar>>,
               <<0, Dollars(100)>>}}

\* Complete returns with other-state income (a part of the NY income, or
\* more than all of it), other-state tax and a UBT credit below and above
\* the NY taxes of 11 and 6 dollars, or negative.
CreditInputs ==
    {InputsDict(K1Facts, W2Facts, NYFacts,
                << Fact(other_state_income, <<"ny_it_112_r_line_22_other_state_income">>),
                   Fact(other_state_tax, <<"ny_it_112_r_line_24_other_state_tax">>),
                   Fact(ubt_credit, <<"ny_it_219_line_7_ubt_credit">>) >>) :
        other_state_income \in {Dollars(50), Dollars(400)},
        other_state_tax \in {Dollars(2), Dollars(500), -Dollars(5)},
        ubt_credit \in {Dollars(1), Dollars(500), -Dollars(5)}}

\* Complete returns, as a mapping and as the flat list, that carry facts
\* without tags next to tagged ones, and the section 179 tag in two
\* sources.
UntaggedInputs ==
    LET k1 == << Fact(Dollars(1000), <<>>) >> \o K1Facts
        w2 == W2Facts \o << Fact(-Dollars(7), <<>>) >>
        extra == << Fact(Dollars(3), <<"section_179_deduction">>) >>
    IN {InputsDict(k1, w2, NYFacts, extra), InputsList(k1, w2, NYFacts, extra)}

\* The standard deduction is not a whole number of dollars.
FractionalPolicy == [BasePolicy EXCEPT !.standard_deduction = Dollars(20) + HalfDollar]

\* The expected document whose leaves are the values the two pipelines
\* compute: one entry per checked path, for the pipelines that reach their
\* total.
ExpectedEntries(check_list, computed_lines) ==
    IF computed_lines.ok
    THEN {[path |-> check_list[i].path,
           node |-> DecimalNode(computed_lines.val[check_list[i].var])] :
             i \in DOMAIN check_list}
    ELSE {}

\* A modification of one entry of the expected document.
ModifiedNode(node, kind) ==
    CASE kind = "wrong" -> DecimalNode(node.val + Dollars(1))
      [] kind = "text" -> TextNode
      [] kind = "none" -> NoneNode
      [] kind = "dict" -> DictNode(<<>>)
      [] kind = "signalling" -> SignallingNode
      [] OTHER -> node

\* mods: a set of [path, kind]; kind "missing" removes the entry, a path
\* shorter than an entry's replaces the subtree holding it.
ApplyMods(entries, mods) ==
    {[path |-> e.path,
      node |-> IF \E m \in mods : m.path = e.path
               THEN ModifiedNode(e.node, (CHOOSE m \in mods : m.path = e.path).kind)
               ELSE e.node] :
        e \in {e \in entries : ~\E m \in mods : m.path = e.path /\ m.kind = "missing"}}
    \cup {[path |-> m.path, node |-> ModifiedNode(DecimalNode(0), m.kind)] :
            m \in {m \in mods : (~\E e \in entries : e.path = m.path)
                                /\ m.kind # "missing"}}

\* The JSON object holding the entries, from the given depth of their paths.
RECURSIVE BuildTree(_, _)
BuildTree(entries, depth) ==
    LET keys == {e.path[depth] : e \in entries}
    IN DictNode([k \in keys |->
           LET under == {e \in entries : e.path[depth] = k}
           IN IF \E e \in under : Len(e.path) = depth
              THEN (CHOOSE e \in under : Len(e.path) = depth).node
              ELSE BuildTree(under, depth + 1)])

ExpectedDocument(inputs, policy, mods) ==
    BuildTree(ApplyMods(
        ExpectedEntries(federal_check_list, federal_compute(inputs, policy))
        \cup ExpectedEntries(ny_check_list, ny_compute(inputs, policy)), mods), 1)

\* Paths probed by the modified expected documents.
ProbePaths == {
    <<"federal", "schedule_se", "line_2_schedule_c_and_k1_profit">>,
    <<"federal", "schedule_1", "line_10_additional_income">>,
    <<"federal", "schedule_1", "line_15_deductible_self_employment_tax">>,
    <<"federal", "form_1040", "line_11_adjusted_gross_income">>,
    <<"federal", "compute_total_tax">>,
    <<"ny", "it_201", "line_17_total_federal_income">>,
    <<"ny", "it_201", "line_52_nyc_tax_before_credits">>,
    <<"ny", "it_201", "line_53_nyc_nonrefundable_credits">>,
    <<"ny", "compute_total_tax">> }

\* Most entries of an expected document that disagree with the computed
\* values at once.
MaxWrong == 2

\* The modifications of the expected documents: nothing changed, one probed
\* entry made wrong / non-numeric / null / an object / absent, an entry
\* made 'sNaN', a form's object replaced by a number, and up to MaxWrong
\* entries made wrong.
ExpectedMods ==
    {{}}
    \cup {{[path |-> p, kind |-> k]} :
            p \in ProbePaths, k \in {"text", "none", "dict", "missing"}}
    \cup {{[path |-> p, kind |-> "signalling"]} :
            p \in {<<"federal", "form_1040", "line_11_adjusted_gross_income">>,
                   <<"ny", "it_201", "line_17_total_federal_income">>}}
    \cup {{[path |-> <<"federal", "schedule_se">>, kind |-> "wrong"]},
          {[path |-> <<"ny">>, kind |-> "text"]},
          {[path |-> <<"federal", "form_1040", "line_99_not_computed">>,
            kind |-> "wrong"]}}
    \cup {{[path |-> p, kind |-> "wrong"] : p \in S} :
            S \in {S \in SUBSET ProbePaths : Cardinality(S) \in 1..MaxWrong}}

YEARS == {2023, 2024}

Fixture(year, inputs, policy, expected_values) ==
    [year |-> year, inputs |-> inputs, policy |-> policy,
     expected_values |-> expected_values]

\* The fixtures of the years: returns of many shapes with the expected
\* document that agrees with the code, and a few returns with expected
\* documents of many shapes.
Fixtures ==
    {Fixture(2024, i, p, ExpectedDocument(i, p, {})) :
        i \in RichInputs \cup QualifiedDividendInputs,
        p \in {BasePolicy, TotalWorksheetPolicy, GapPolicy, FractionalPolicy}}
    \cup {Fixture(2024, i, BasePolicy, ExpectedDocument(i, BasePolicy, {})) :
        i \in IncompleteInputs \cup CountInputs \cup WagesOnlyInputs
              \cup UntaggedInputs \cup NearDerivedOverrideInputs
              \cup NoProfitInputs \cup CreditInputs}
    \cup {Fixture(2023, BaseInputs, BasePolicy,
                  ExpectedDocument(BaseInputs, BasePolicy, m)) : m \in ExpectedMods}
    \cup {Fixture(2023, BaseInputs, BasePolicy, e) : e \in {NoneNode, TextNode}}

\* ---------------------------------------------------------------------
\* The test harness (test_tax.py 160-163, 293-312, 352-356, 405-427,
\* 1935-1955)
\* ---------------------------------------------------------------------

ENABLE_INTERNAL_COMPUTE_CHECKS == TRUE

Tests == {"test_federal_schedule_se_line_2_schedule_c_and_k1_profit",
          "test_federal_schedule_se_line_6_total_se_earnings",
          "test_compute_federal_total_tax",
          "test_compute_ny_total_tax"}

\* The test whose value prepare_args asks for through computed(), "" when
\* it asks for none.
ComputedDependency(test) ==
    IF test = "test_federal_schedule_se_line_6_total_se_earnings"
    THEN "test_federal_schedule_se_line_2_schedule_c_and_k1_profit"
    ELSE ""

\* prepare_args of a test once its computed() value (dep) is known: Ok(the
\* arguments that are amounts) or the error of a required lookup.
prepare_args(test, inputs_items, inputs_index, dep) ==
    IF test = "test_federal_schedule_se_line_2_schedule_c_and_k1_profit"
    THEN LET k1_box_14a == tag_total(inputs_index,
                 "schedule_se_k1_box_14a_self_employment_earnings", TRUE, FALSE)
             k1_box_12 == tag_total(inputs_index, "section_179_deduction", TRUE, FALSE)
         IN IF ~k1_box_14a.ok THEN k1_box_14a
            ELSE IF ~k1_box_12.ok THEN k1_box_12
            ELSE Ok(<<k1_box_14a.val, k1_box_12.val>>)
    ELSE IF test = "test_federal_schedule_se_line_6_total_se_earnings"
    THEN Ok(<<dep>>)
    ELSE Ok(<<>>)

NotRun ==
    [invoked |-> FALSE, checks |-> ComputeChecksOff, result |-> Ok(0),
     finished |-> FALSE, locals |-> NoLocals, log |-> <<>>]

Run(checks, r) ==
    [invoked |-> TRUE, checks |-> checks, result |-> r.result,
     finished |-> r.finished, locals |-> r.locals, log |-> r.log]

\* func(**kwargs) of a test under the compute-check globals: the pipeline
\* run made (for the two pipeline tests) and the result.
TestedCall(test, kwargs, inputs_items, policy_doc, checks) ==
    IF test = "test_federal_schedule_se_line_2_schedule_c_and_k1_profit"
    THEN [federal |-> NotRun, ny |-> NotRun,
          result |-> Ok(federal_schedule_se_line_2_schedule_c_and_k1_profit(
                            kwargs[1], kwargs[2]))]
    ELSE IF test = "test_federal_schedule_se_line_6_total_se_earnings"
    THEN [federal |-> NotRun, ny |-> NotRun,
          result |-> Ok(federal_schedule_se_line_6_total_se_earnings(
                            kwargs[1], policy_doc))]
    ELSE IF test = "test_compute_federal_total_tax"
    THEN LET Returned(r) ==
                 [federal |-> Run(checks, r), ny |-> NotRun, result |-> r.result]
         IN Returned(compute_federal_total_tax(inputs_items, policy_doc, checks))
    ELSE LET Returned(r) ==
                 [federal |-> NotRun, ny |-> Run(checks, r), result |-> r.result]
         IN Returned(compute_ny_total_tax(inputs_items, policy_doc, checks))

\* A faulty finally clause: the mode is reset only when the call
\* returned.
compute_value_finally_on_return_only(checks, result) ==
    IF ENABLE_INTERNAL_COMPUTE_CHECKS /\ result.ok
    THEN set_compute_checks_mode(FALSE, NoneNode, NoContext)
    ELSE checks

\* The finally clause of compute_value (test_tax.py 310-312).
compute_value_finally(checks, result) ==
    IF ENABLE_INTERNAL_COMPUTE_CHECKS
    THEN set_compute_checks_mode(FALSE, NoneNode, NoContext)
    ELSE checks

\* The statement before the try of compute_value (test_tax.py 306-307).
compute_value_enable(checks, expected_doc, year_loaded) ==
    IF ENABLE_INTERNAL_COMPUTE_CHECKS
    THEN set_compute_checks_mode(TRUE, expected_doc, SomeContext(ToString(year_loaded)))
    ELSE checks

\* ---------------------------------------------------------------------
\* State
\* ---------------------------------------------------------------------

VARIABLES
    CURRENT_YEAR,     \* the year whose documents are loaded
    inputs,           \* inputs_<year>.json
    policy,           \* policy_<year>.json
    expected_values,  \* expected_<year>.json
    compute_checks,   \* the globals _COMPUTE_CHECKS_ENABLED / _EXPECTED / _CONTEXT
    stack,            \* the compute_value calls in progress, innermost last
    call,             \* the top-level call made last
    outcome,          \* its result, once it has ended
    federal_run,      \* the compute_federal_total_tax invocation it made
    ny_run,           \* the compute_ny_total_tax invocation it made
    earlier,          \* how the calls before the last ended, where recorded
    threads           \* the compute_value calls of concurrent threads, where run

documents == <<CURRENT_YEAR, inputs, policy, expected_values>>

vars == <<CURRENT_YEAR, inputs, policy, expected_values, compute_checks,
          stack, call, outcome, federal_run, ny_run, earlier, threads>>

Call(op, test, tag, required, round_each) ==
    [op |-> op, test |-> test, tag |-> tag, required |-> required,
     round_each |-> round_each, args |-> <<>>]

\* A call of a line function with positional arguments (amounts).
LineCall(op, args) == [Call(op, "", "", FALSE, FALSE) EXCEPT !.args = args]

Pending == [done |-> FALSE, result |-> Ok(0)]

Done(result) == [done |-> TRUE, result |-> result]

Frame(test) ==
    [test |-> test, pc |-> "prepare", dep |-> NoDecimal, kwargs |-> <<>>,
     result |-> Ok(0)]

Top == stack[Len(stack)]

SetTop(frame) == [stack EXCEPT ![Len(stack)] = frame]

Init ==
    /\ \E f \in Fixtures :
          /\ CURRENT_YEAR = f.year
          /\ inputs = f.inputs
          /\ policy = f.policy
          /\ expected_values = f.expected_values
    /\ compute_checks = ComputeChecksOff
    /\ stack = <<>>
    /\ call = Call("none", "", "", FALSE, FALSE)
    /\ outcome = Pending
    /\ federal_run = NotRun
    /\ ny_run = NotRun
    /\ earlier = {}
    /\ threads = <<>>

\* Tags looked up directly.
ProbeTags == {"ny_dependents_count", "section_179_deduction",
              "form_1040_line_11_adjusted_gross_income"}

\* A caller looks a tag up: tag_total(build_inputs_index(inputs), tag, ...).
CallTagTotal ==
    /\ stack = <<>>
    /\ ~outcome.done
    /\ \E tag \in ProbeTags, required \in BOOLEAN, round_each \in BOOLEAN :
          /\ call' = Call("tag_total", "", tag, required, round_each)
          /\ outcome' = Done(tag_total(build_inputs_index(inputs), tag,
                                       required, round_each))
    /\ federal_run' = NotRun
    /\ ny_run' = NotRun
    /\ UNCHANGED <<documents, earlier, threads, compute_checks, stack>>

\* A caller builds the index of the inputs.
CallBuildInputsIndex ==
    /\ stack = <<>>
    /\ ~outcome.done
    /\ call' = Call("build_inputs_index", "", "", FALSE, FALSE)
    /\ outcome' = Done(Ok(build_inputs_index(inputs)))
    /\ federal_run' = NotRun
    /\ ny_run' = NotRun
    /\ UNCHANGED <<documents, earlier, threads, compute_checks, stack>>

\* A faulty federal pipeline: it leaves the flat list of the facts in the
\* place of the collection it was given.
CallComputeFederalTotalTaxFlattening ==
    /\ stack = <<>>
    /\ ~outcome.done
    /\ LET Returned(r) ==
               /\ federal_run' = Run(compute_checks, r)
               /\ outcome' = Done(r.result)
       IN Returned(compute_federal_total_tax(inputs, policy, compute_checks))
    /\ inputs' = [form |-> "list", items |-> items_iter(inputs)]
    /\ ny_run' = NotRun
    /\ call' = Call("compute_federal_total_tax", "", "", FALSE, FALSE)
    /\ UNCHANGED <<CURRENT_YEAR, policy, expected_values, earlier, threads, compute_checks,
                   stack>>

\* A caller outside the harness runs the federal pipeline.
CallComputeFederalTotalTax ==
    /\ stack = <<>>
    /\ ~outcome.done
    /\ LET Returned(r) ==
               /\ federal_run' = Run(compute_checks, r)
               /\ outcome' = Done(r.result)
       IN Returned(compute_federal_total_tax(inputs, policy, compute_checks))
    /\ ny_run' = NotRun
    /\ call' = Call("compute_federal_total_tax", "", "", FALSE, FALSE)
    /\ UNCHANGED <<documents, earlier, threads, compute_checks, stack>>

\* A caller outside the harness runs the NY pipeline.
CallComputeNYTotalTax ==
    /\ stack = <<>>
    /\ ~outcome.done
    /\ LET Returned(r) ==
               /\ ny_run' = Run(compute_checks, r)
               /\ outcome' = Done(r.result)
       IN Returned(compute_ny_total_tax(inputs, policy, compute_checks))
    /\ federal_run' = NotRun
    /\ call' = Call("compute_ny_total_tax", "", "", FALSE, FALSE)
    /\ UNCHANGED <<documents, earlier, threads, compute_checks, stack>>

\* A caller runs compute_all_taxes.
CallComputeAllTaxes ==
    /\ stack = <<>>
    /\ ~outcome.done
    /\ LET Returned(r) ==
               /\ federal_run' = Run(compute_checks, r.federal)
               /\ ny_run' = IF r.ny_invoked THEN Run(compute_checks, r.ny) ELSE NotRun
               /\ outcome' = Done(r.result)
       IN Returned(compute_all_taxes(inputs, policy, compute_checks))
    /\ call' = Call("compute_all_taxes", "", "", FALSE, FALSE)
    /\ UNCHANGED <<documents, earlier, threads, compute_checks, stack>>

\* test.compute(year) is entered from the test driver.
ComputeValueBegin ==
    /\ stack = <<>>
    /\ ~outcome.done
    /\ \E test \in Tests :
          /\ stack' = <<Frame(test)>>
          /\ call' = Call("compute_value", test, "", FALSE, FALSE)
    /\ outcome' = Pending
    /\ federal_run' = NotRun
    /\ ny_run' = NotRun
    /\ UNCHANGED <<documents, earlier, threads, compute_checks>>

\* prepare_args reaches computed(dependency): a nested compute_value.
ComputeValueComputed ==
    /\ stack # <<>>
    /\ Top.pc = "prepare"
    /\ ComputedDependency(Top.test) # ""
    /\ ~Top.dep.some
    /\ stack' = Append(stack, Frame(ComputedDependency(Top.test)))
    /\ UNCHANGED <<documents, earlier, threads, compute_checks, call, outcome, federal_run, ny_run>>

\* prepare_args ends: with the arguments, or with an error that leaves
\* every compute_value in progress (each is inside its prepare_args).
ComputeValuePrepare ==
    /\ stack # <<>>
    /\ Top.pc = "prepare"
    /\ ComputedDependency(Top.test) # "" => Top.dep.some
    /\ LET r == prepare_args(Top.test, inputs, build_inputs_index(inputs), Top.dep.val)
       IN IF r.ok
          THEN /\ stack' = SetTop([Top EXCEPT !.pc = "enable", !.kwargs = r.val])
               /\ UNCHANGED outcome
          ELSE /\ stack' = <<>>
               /\ outcome' = Done(r)
    /\ UNCHANGED <<documents, earlier, threads, compute_checks, call, federal_run, ny_run>>

\* set_compute_checks_mode(True, expected_values, context=str(year))
ComputeValueEnable ==
    /\ stack # <<>>
    /\ Top.pc = "enable"
    /\ compute_checks' = compute_value_enable(compute_checks, expected_values, CURRENT_YEAR)
    /\ stack' = SetTop([Top EXCEPT !.pc = "call"])
    /\ UNCHANGED <<documents, earlier, threads, call, outcome, federal_run, ny_run>>

\* func(**kwargs) runs to its end.
ComputeValueCall ==
    /\ stack # <<>>
    /\ Top.pc = "call"
    /\ LET Returned(c) ==
               /\ stack' = SetTop([Top EXCEPT !.pc = "finally", !.result = c.result])
               /\ federal_run' = IF c.federal.invoked THEN c.federal ELSE federal_run
               /\ ny_run' = IF c.ny.invoked THEN c.ny ELSE ny_run
       IN Returned(TestedCall(Top.test, Top.kwargs, inputs, policy, compute_checks))
    /\ UNCHANGED <<documents, earlier, threads, compute_checks, call, outcome>>

\* The finally clause runs and compute_value ends: its value goes to the
\* computed() that asked for it or to the driver, its error to the driver.
ComputeValueFinally ==
    /\ stack # <<>>
    /\ Top.pc = "finally"
    /\ compute_checks' = compute_value_finally(compute_checks, Top.result)
    /\ IF Top.result.ok /\ Len(stack) > 1
       THEN /\ stack' = [SubSeq(stack, 1, Len(stack) - 1) EXCEPT
                            ![Len(stack) - 1].dep = SomeDecimal(Top.result.val)]
            /\ UNCHANGED outcome
       ELSE /\ stack' = <<>>
            /\ outcome' = Done(Top.result)
    /\ UNCHANGED <<documents, earlier, threads, call, federal_run, ny_run>>

\* The caller has taken the outcome of its call and goes on to its next.
NextCall ==
    /\ outcome.done
    /\ call' = Call("none", "", "", FALSE, FALSE)
    /\ outcome' = Pending
    /\ federal_run' = NotRun
    /\ ny_run' = NotRun
    /\ UNCHANGED <<documents, earlier, threads, compute_checks, stack>>

Next ==
    \/ NextCall
    \/ CallTagTotal
    \/ CallBuildInputsIndex
    \/ CallComputeFederalTotalTax
    \/ CallComputeNYTotalTax
    \/ CallComputeAllTaxes
    \/ ComputeValueBegin
    \/ ComputeValueComputed
    \/ ComputeValuePrepare
    \/ ComputeValueEnable
    \/ ComputeValueCall
    \/ ComputeValueFinally

Spec == Init /\ [][Next]_vars

\* ---------------------------------------------------------------------
\* Sequences of calls on one set of documents, with the record of how the
\* earlier calls ended
\* ---------------------------------------------------------------------

\* Returns that compute, with expected documents that agree and that
\* disagree with the code, returns that lack a required fact, and returns
\* under the policy whose schedules leave incomes without a row.
RepeatFixtures ==
    {Fixture(2023, BaseInputs, BasePolicy, ExpectedDocument(BaseInputs, BasePolicy, m)) :
        m \in {{},
               {[path |-> <<"federal", "compute_total_tax">>, kind |-> "wrong"]},
               {[path |-> <<"ny", "it_201", "line_52_nyc_tax_before_credits">>,
                 kind |-> "wrong"]},
               {[path |-> <<"federal", "schedule_1", "line_10_additional_income">>,
                 kind |-> "wrong"],
                [path |-> <<"ny", "compute_total_tax">>, kind |-> "wrong"]}}}
    \cup {Fixture(2024, i, BasePolicy, ExpectedDocument(i, BasePolicy, {})) :
             i \in IncompleteInputs}
    \cup {Fixture(2024, i, GapPolicy, ExpectedDocument(i, GapPolicy, {})) :
             i \in {r \in RichInputs : Len(r.sources[4].items) <= 1}}

RepeatInit ==
    /\ \E f \in RepeatFixtures :
          /\ CURRENT_YEAR = f.year
          /\ inputs = f.inputs
          /\ policy = f.policy
          /\ expected_values = f.expected_values
    /\ compute_checks = ComputeChecksOff
    /\ stack = <<>>
    /\ call = Call("none", "", "", FALSE, FALSE)
    /\ outcome = Pending
    /\ federal_run = NotRun
    /\ ny_run = NotRun
    /\ earlier = {}
    /\ threads = <<>>

\* The caller has taken the outcome of its call and goes on to its next;
\* the way the call ended (returned, or the type of its error) is recorded.
NextCallRecorded ==
    /\ outcome.done
    /\ earlier' = earlier \cup
           {IF outcome.result.ok THEN "returned" ELSE outcome.result.err.type}
    /\ call' = Call("none", "", "", FALSE, FALSE)
    /\ outcome' = Pending
    /\ federal_run' = NotRun
    /\ ny_run' = NotRun
    /\ UNCHANGED <<documents, threads, compute_checks, stack>>

RepeatNext ==
    \/ NextCallRecorded
    \/ CallComputeFederalTotalTax
    \/ CallComputeNYTotalTax
    \/ CallComputeAllTaxes
    \/ ComputeValueBegin
    \/ ComputeValueComputed
    \/ ComputeValuePrepare
    \/ ComputeValueEnable
    \/ ComputeValueCall
    \/ ComputeValueFinally

RepeatSpec == RepeatInit /\ [][RepeatNext]_vars

\* ---------------------------------------------------------------------
\* Calls of the marginal rate table by input
\* ---------------------------------------------------------------------

\* Complete returns, as mappings, with at most one additional fact and,
\* before or after all others, a fact whose Amount is no decimal ('n/a',
\* '', or no Amount at all). Such a fact bears no tag, a tag no pipeline
\* reads, or a tag the pipelines look up with tag_total directly. Two more
\* returns have sources named as the reporter by tag names its synthetic
\* source.
ReportInputs ==
    LET unparseable ==
            {<<>>} \cup
            {<< [Amount |-> 0, Tags |-> tags, parses |-> FALSE] >> :
                tags \in {<<>>, <<"memo">>, <<"form_1040_line_1z_wages">>,
                          <<"ny_dependents_count">>,
                          <<"schedule_se_k1_box_14a_self_employment_earnings">>}}
    IN {InputsDict(first \o K1Facts, W2Facts, NYFacts,
                   PickFacts(ExtraFactPool, chosen, 1) \o last) :
           chosen \in {S \in SUBSET DOMAIN ExtraFactPool : Cardinality(S) <= 1},
           first \in unparseable, last \in unparseable}
       \cup {[BaseInputs EXCEPT !.sources = @ \o taken] :
                taken \in {<< [source |-> "__MARGINAL_SHOCK__",
                               items |-> << Fact(Dollars(30), <<"schedule_b_interest">>) >>] >>,
                           << [source |-> "__MARGINAL_SHOCK__", items |-> <<>>],
                              [source |-> "__MARGINAL_SHOCK___X",
                               items |-> << Fact(Dollars(30), <<"memo">>) >>] >>}}

ReportInit ==
    /\ CURRENT_YEAR = 2024
    /\ inputs \in ReportInputs
    /\ policy = BasePolicy
    /\ expected_values = DictNode(<<>>)
    /\ compute_checks = ComputeChecksOff
    /\ stack = <<>>
    /\ call = Call("none", "", "", FALSE, FALSE)
    /\ outcome = Pending
    /\ federal_run = NotRun
    /\ ny_run = NotRun
    /\ earlier = {}
    /\ threads = <<>>

\* A caller asks for the marginal rate table by input.
CallMarginalRateTableByInput ==
    /\ stack = <<>>
    /\ ~outcome.done
    /\ \E delta \in {0, Dollars(1), Dollars(10)} :
          /\ call' = LineCall("marginal_rate_table_by_input", <<delta>>)
          /\ outcome' = Done(marginal_rate_table_by_input(inputs, policy, delta,
                                                          compute_checks))
    /\ UNCHANGED <<documents, earlier, threads, compute_checks, stack, federal_run, ny_run>>

\* A caller asks for the marginal rate table by tag.
CallMarginalRateTableByTag ==
    /\ stack = <<>>
    /\ ~outcome.done
    /\ \E delta \in {0, Dollars(1), Dollars(10)} :
          /\ call' = LineCall("marginal_rate_table_by_tag", <<delta>>)
          /\ outcome' = Done(marginal_rate_table_by_tag(inputs, policy, delta,
                                                        compute_checks))
    /\ UNCHANGED <<documents, earlier, threads, compute_checks, stack, federal_run, ny_run>>

ReportNext ==
    \/ NextCall
    \/ CallMarginalRateTableByInput
    \/ CallMarginalRateTableByTag

ReportSpec == ReportInit /\ [][ReportNext]_vars

\* ---------------------------------------------------------------------
\* Two compute_value calls of test_compute_federal_total_tax in two
\* threads of one process (test_tax.py 293-312; tax.py 69-109, 3956-4032)
\* ---------------------------------------------------------------------

\* The documents each thread loads. A: a return with an expected document
\* whose total is wrong, or one that agrees with the code. B: the same
\* return, or one with other amounts, with expected documents that agree.
ThreadFixtures ==
    LET more == InputsDict(K1Facts, W2Facts, NYFacts,
                           << Fact(Dollars(30), <<"schedule_b_interest">>) >>)
        wrong_total == {[path |-> <<"federal", "compute_total_tax">>,
                         kind |-> "wrong"]}
    IN [A |-> {Fixture(2023, BaseInputs, BasePolicy,
                       ExpectedDocument(BaseInputs, BasePolicy, wrong_total)),
               Fixture(2023, BaseInputs, BasePolicy,
                       ExpectedDocument(BaseInputs, BasePolicy, {}))},
        B |-> {Fixture(2024, BaseInputs, BasePolicy,
                       ExpectedDocument(BaseInputs, BasePolicy, {})),
               Fixture(2024, more, BasePolicy,
                       ExpectedDocument(more, BasePolicy, {}))}]

\* The compute_value call of each thread: where it stands (pc), its loaded
\* documents, the locals of the pipeline once computed, the check
\* statement it is at (k), the globals the comparator last read (seen),
\* and its result. crossed records that the other thread set the
\* compute-check mode after this thread enabled it and before this
\* thread's last comparison; seen_crossed, that the comparator read the
\* globals after that.
OverlapInit ==
    /\ CURRENT_YEAR = 2024
    /\ inputs = BaseInputs
    /\ policy = BasePolicy
    /\ expected_values = DictNode(<<>>)
    /\ compute_checks = ComputeChecksOff
    /\ stack = <<>>
    /\ call = Call("none", "", "", FALSE, FALSE)
    /\ outcome = Pending
    /\ federal_run = NotRun
    /\ ny_run = NotRun
    /\ earlier = {}
    /\ \E a \in ThreadFixtures.A, b \in ThreadFixtures.B :
          threads = [t \in {"A", "B"} |->
                        [pc |-> "enable", fixture |-> IF t = "A" THEN a ELSE b,
                         locals |-> NoLocals, k |-> 0, seen |-> ComputeChecksOff,
                         seen_crossed |-> FALSE, crossed |-> FALSE,
                         result |-> Ok(0)]]

\* The thread records after thread t set the compute-check mode: the other
\* thread, when it stands between its enable and its last comparison, has
\* been crossed.
ModeSetBy(t, after) ==
    [u \in DOMAIN after |->
        IF u # t /\ after[u].pc \in {"call", "check", "raise"}
        THEN [after[u] EXCEPT !.crossed = TRUE]
        ELSE after[u]]

\* set_compute_checks_mode(True, expected_values, context=str(year)).
ThreadEnable(t) ==
    /\ threads[t].pc = "enable"
    /\ compute_checks' = compute_value_enable(compute_checks,
                             threads[t].fixture.expected_values,
                             threads[t].fixture.year)
    /\ threads' = ModeSetBy(t, [threads EXCEPT ![t].pc = "call"])
    /\ UNCHANGED <<documents, earlier, stack, call, outcome, federal_run, ny_run>>

\* func(**kwargs) up to the first check statement: the computation of
\* compute_federal_total_tax, which reads no global.
ThreadCompute(t) ==
    /\ threads[t].pc = "call"
    /\ LET computed_lines == federal_compute(threads[t].fixture.inputs,
                                             threads[t].fixture.policy)
       IN threads' = [threads EXCEPT ![t] =
              IF computed_lines.ok
              THEN [@ EXCEPT !.pc = "check", !.locals = computed_lines.val, !.k = 1]
              ELSE [@ EXCEPT !.pc = "finally", !.result = computed_lines]]
    /\ UNCHANGED <<documents, earlier, compute_checks, stack, call, outcome,
                   federal_run, ny_run>>

\* Check statement k: _expected_decimal_for_path reads the enabled flag
\* and the expected tree, and the comparison is made; on a mismatch the
\* context is still to be read.
ThreadCheck(t) ==
    /\ threads[t].pc = "check"
    /\ LET entry == federal_check_list[threads[t].k]
           compared == check_compute_line(compute_checks, entry.path,
                                          threads[t].locals[entry.var])
       IN threads' = [threads EXCEPT ![t] =
              [IF ~compared.ok
               THEN [@ EXCEPT !.pc = "raise"]
               ELSE IF @.k = Len(federal_check_list)
               THEN [@ EXCEPT !.pc = "finally", !.result = Ok(threads[t].locals.total_tax)]
               ELSE [@ EXCEPT !.k = @ + 1]
                  EXCEPT !.seen = compute_checks, !.seen_crossed = threads[t].crossed]]
    /\ UNCHANGED <<documents, earlier, compute_checks, stack, call, outcome,
                   federal_run, ny_run>>

\* The raise of _check_compute_line: the message is built with the context
\* as it is now.
ThreadRaise(t) ==
    /\ threads[t].pc = "raise"
    /\ LET entry == federal_check_list[threads[t].k]
       IN threads' = [threads EXCEPT ![t].pc = "finally", ![t].result =
              check_compute_line(
                  [threads[t].seen EXCEPT !.context = compute_checks.context],
                  entry.path, threads[t].locals[entry.var])]
    /\ UNCHANGED <<documents, earlier, compute_checks, stack, call, outcome,
                   federal_run, ny_run>>

\* The finally clause: set_compute_checks_mode(False).
ThreadFinally(t) ==
    /\ threads[t].pc = "finally"
    /\ compute_checks' = compute_value_finally(compute_checks, threads[t].result)
    /\ threads' = ModeSetBy(t, [threads EXCEPT ![t].pc = "done"])
    /\ UNCHANGED <<documents, earlier, stack, call, outcome, federal_run, ny_run>>

OverlapNext ==
    \E t \in {"A", "B"} :
        \/ ThreadEnable(t)
        \/ ThreadCompute(t)
        \/ ThreadCheck(t)
        \/ ThreadRaise(t)
        \/ ThreadFinally(t)

OverlapSpec == OverlapInit /\ [][OverlapNext]_vars

\* ---------------------------------------------------------------------
\* Properties of the orchestrator overrides
\* ---------------------------------------------------------------------

\* The index compute_federal_total_tax builds from the loaded inputs.
LoadedIndex == build_inputs_index(inputs)

\* The last call ran compute_federal_total_tax through all its statements.
FederalFinished == federal_run.invoked /\ federal_run.finished

AGIOverride == tag_sum(LoadedIndex, "form_1040_line_11_adjusted_gross_income")

\* C1, as the code has it: when the facts tagged
\* form_1040_line_11_adjusted_gross_income sum to a non-zero value v, Form
\* 1040 line 11 is round_to_dollars(v), whatever line 9 and Schedule 1
\* line 26 are.
C1_Line11IsRoundedOverride ==
    FederalFinished /\ AGIOverride # 0 =>
        federal_run.locals.line_11_agi = round_to_dollars(AGIOverride)

\* A run whose override total is not a whole number of dollars and whose
\* derived AGI (line 9 less line 26) is another amount.
C1_Witness ==
    /\ FederalFinished
    /\ AGIOverride # 0
    /\ AGIOverride # round_to_dollars(AGIOverride)
    /\ federal_run.locals.line_11_agi = round_to_dollars(AGIOverride)
    /\ federal_form_1040_line_11_adjusted_gross_income(
           federal_run.locals.line_9_total_income,
           federal_run.locals.line_26_adjustments) # federal_run.locals.line_11_agi

\* C1 as stated: line 11 equals exactly the supplied value v.
C1_Line11IsExactOverride ==
    FederalFinished /\ AGIOverride # 0 =>
        federal_run.locals.line_11_agi = AGIOverride

\* C2 as stated, for Form 8960 line 8: when the facts tagged
\* form_8960_line_8_total_investment_income sum to a non-zero value, the
\* orchestrator uses that value for the line.
C2_Form8960Line8IsOverride ==
    FederalFinished
    /\ tag_sum(LoadedIndex, "form_8960_line_8_total_investment_income") # 0 =>
        federal_run.locals.line_8_total_investment_income =
            tag_sum(LoadedIndex, "form_8960_line_8_total_investment_income")

\* C3 as stated: when the facts tagged form_1040_line_16_tax sum to a
\* non-zero value, the call does not fail for want of a worksheet row or
\* for a taxable income below the worksheet minimum.
C3_Line16OverrideBypassesWorksheet ==
    federal_run.invoked /\ tag_sum(LoadedIndex, "form_1040_line_16_tax") # 0 =>
        ~(~federal_run.result.ok
          /\ federal_run.result.err.type = "NoMatchingBracket")

OrchestratorOverrideTags ==
    {"form_1040_line_11_adjusted_gross_income", "form_1040_line_12_deductions",
     "form_1040_line_16_tax"}

FactsWithoutTag(items, tag) ==
    SelectSeq(items, LAMBDA fact : TagCount(fact.Tags, tag) = 0)

\* The inputs document with the facts bearing the tag taken out.
InputsWithoutTag(doc, tag) ==
    IF doc.form = "dict"
    THEN [doc EXCEPT !.sources =
             [s \in DOMAIN doc.sources |->
                 [doc.sources[s] EXCEPT !.items = FactsWithoutTag(@, tag)]]]
    ELSE [doc EXCEPT !.items = FactsWithoutTag(@, tag)]

\* C4: for each of the tags of Form 1040 lines 11, 12 and 16, facts under
\* the tag that sum to zero leave the computation as it is without them:
\* every line, the total, and whether the pipeline raises.
C4_ZeroSumOverrideIsNoOverride ==
    \A tag \in OrchestratorOverrideTags :
        /\ federal_run.invoked
        /\ BucketOf(LoadedIndex, tag) # <<>>
        /\ tag_sum(LoadedIndex, tag) = 0
        => LET Same(derived) ==
                   IF derived.ok
                   THEN /\ federal_run.finished
                        /\ federal_run.locals = derived.val
                   ELSE /\ ~federal_run.finished
                        /\ federal_run.result = derived
           IN Same(federal_compute(InputsWithoutTag(inputs, tag), policy))

\* A run on two AGI-override facts that cancel: line 11 is the derived AGI.
C4_Witness ==
    /\ FederalFinished
    /\ Len(BucketOf(LoadedIndex, "form_1040_line_11_adjusted_gross_income")) = 2
    /\ AGIOverride = 0
    /\ federal_run.locals.line_11_agi =
           federal_form_1040_line_11_adjusted_gross_income(
               federal_run.locals.line_9_total_income,
               federal_run.locals.line_26_adjustments)
    /\ federal_run.locals.line_11_agi # 0

Line12Deductions == tag_sum(LoadedIndex, "form_1040_line_12_deductions")

StateLocalForeignTaxTotal ==
    tag_sum(LoadedIndex, "form_8960_line_9b_state_local_foreign_income_tax")

\* C5: when the facts tagged form_1040_line_12_deductions sum to a non-zero
\* d, line 12 is round_to_dollars(d + line 9b), line 9b being the state,
\* local and foreign tax total capped at the SALT cap; when they sum to
\* zero, line 12 is the policy's standard_deduction unchanged.
C5_Line12Deduction ==
    FederalFinished =>
        /\ federal_run.locals.line_9b_state_local_foreign_income_tax =
               round_to_dollars(Min2(StateLocalForeignTaxTotal,
                                     policy.state_local_tax_deduction.cap))
        /\ federal_run.locals.line_12_standard_deduction =
               IF Line12Deductions # 0
               THEN round_to_dollars(
                        Line12Deductions
                        + federal_run.locals.line_9b_state_local_foreign_income_tax)
               ELSE policy.standard_deduction

\* A run with itemized deductions and state taxes above the cap: line 12 is
\* the rounded sum of the deductions and the cap.
C5_Witness ==
    /\ FederalFinished
    /\ Line12Deductions # 0
    /\ StateLocalForeignTaxTotal > policy.state_local_tax_deduction.cap
    /\ Line12Deductions + policy.state_local_tax_deduction.cap
           # round_to_dollars(Line12Deductions + policy.state_local_tax_deduction.cap)
    /\ federal_run.locals.line_12_standard_deduction =
           round_to_dollars(Line12Deductions + policy.state_local_tax_deduction.cap)

\* ---------------------------------------------------------------------
\* Properties of the compute checks
\* ---------------------------------------------------------------------

\* The node the keys of a path lead to in an expected document, when every
\* key is present on the way.
RECURSIVE NodeAt(_, _, _)
NodeAt(node, path, i) ==
    IF i > Len(path)
    THEN [found |-> TRUE, node |-> node]
    ELSE IF node.kind = "dict" /\ path[i] \in DOMAIN node.items
         THEN NodeAt(node.items[path[i]], path, i + 1)
         ELSE [found |-> FALSE, node |-> NoneNode]

\* The comparator call `entry` of the run r met a numeric expected value
\* other than the actual one.
DecimalMismatch(r, entry) ==
    LET Differs(at) ==
            at.found /\ at.node.kind = "decimal" /\ at.node.val # entry.actual
    IN r.checks.enabled /\ Differs(NodeAt(r.checks.expected, entry.path, 1))

\* The comparator call met a value of any kind (number, text, null,
\* object) that is not the actual number.
ValueMismatch(r, entry) ==
    LET Differs(at) ==
            at.found /\ ~(at.node.kind = "decimal" /\ at.node.val = entry.actual)
    IN r.checks.enabled /\ Differs(NodeAt(r.checks.expected, entry.path, 1))

ExpectedValueAt(r, entry) == NodeAt(r.checks.expected, entry.path, 1).node.val

\* The comparator call met the signalling not-a-number.
SignallingExpected(r, entry) ==
    LET at == NodeAt(r.checks.expected, entry.path, 1)
    IN r.checks.enabled /\ at.found /\ at.node.kind = "signalling"

ComparatorRaisesOnDecimalMismatch(r) ==
    r.invoked =>
        \A i \in DOMAIN r.log :
            /\ r.log[i].raised <=>
                   DecimalMismatch(r, r.log[i]) \/ SignallingExpected(r, r.log[i])
            /\ DecimalMismatch(r, r.log[i]) =>
                   r.result = Raise(ComputeCheckMismatch(
                                  r.checks.context.text, r.log[i].path,
                                  ExpectedValueAt(r, r.log[i]), r.log[i].actual))
            /\ SignallingExpected(r, r.log[i]) =>
                   r.result = Raise([type |-> "InvalidOperation"])

\* C6, as the code has it: while compute checks are enabled,
\* _check_compute_line(path, actual) raises a mismatch carrying the context
\* label exactly when the path resolves to a decimal value other than
\* actual; it returns when the value equals actual, when a key is missing,
\* when the value is not a decimal (text, null, an object) and when checks
\* are disabled; on the signalling not-a-number the comparison itself
\* raises decimal.InvalidOperation.
C6_ComparatorRaisesOnDecimalMismatch ==
    /\ ComparatorRaisesOnDecimalMismatch(federal_run)
    /\ ComparatorRaisesOnDecimalMismatch(ny_run)

\* A federal run under enabled checks that a mismatch ended, the error
\* labelled with the year.
C6_Witness ==
    /\ federal_run.invoked
    /\ federal_run.checks.enabled
    /\ ~federal_run.result.ok
    /\ federal_run.result.err.type = "ComputeCheckMismatch"
    /\ federal_run.result.err.prefix = ToString(CURRENT_YEAR)
    /\ federal_run.result.err.expected # federal_run.result.err.actual
    /\ federal_run.log[Len(federal_run.log)].raised

ComparatorRaisesOnValueMismatch(r) ==
    r.invoked =>
        \A i \in DOMAIN r.log : r.log[i].raised <=> ValueMismatch(r, r.log[i])

\* C6 as stated: the comparator raises whenever the path resolves to a
\* value different from actual.
C6_ComparatorRaisesOnAnyDifference ==
    /\ ComparatorRaisesOnValueMismatch(federal_run)
    /\ ComparatorRaisesOnValueMismatch(ny_run)

ChecksAreOff ==
    /\ ~compute_checks.enabled
    /\ compute_checks.expected.kind = "none"
    /\ ~compute_checks.context.some

ChecksAreOnForYear ==
    /\ compute_checks.enabled
    /\ compute_checks.expected = expected_values
    /\ compute_checks.context = SomeContext(ToString(CURRENT_YEAR))

\* C7: in compute_value the mode is enabled from just before the tested
\* function is called until that call has ended and the finally clause
\* runs, whether the call returned or raised; outside that stretch, also
\* in the prepare_args of an outer compute_value and after any sequence
\* of calls, the mode is disabled with expected tree and context None.
C7_ChecksEnabledOnlyAroundTestedCall ==
    /\ stack = <<>> => ChecksAreOff
    /\ stack # <<>> =>
           IF Top.pc \in {"call", "finally"} THEN ChecksAreOnForYear ELSE ChecksAreOff
    /\ call.op = "compute_value" /\ federal_run.invoked => federal_run.checks.enabled
    /\ call.op = "compute_value" /\ ny_run.invoked => ny_run.checks.enabled

\* A compute_value whose tested pipeline raised a mismatch has ended, and
\* the mode is disabled.
C7_Witness ==
    /\ stack = <<>>
    /\ call.op = "compute_value"
    /\ outcome.done
    /\ ~outcome.result.ok
    /\ outcome.result.err.type = "ComputeCheckMismatch"
    /\ federal_run.invoked
    /\ federal_run.checks.enabled
    /\ ChecksAreOff

\* The check statements of a finished run were made in the order of the
\* pipeline's check list, on the values of the locals, up to the first
\* mismatch, which is the error of the run.
ChecksRunInListOrder(r, check_list) ==
    r.invoked /\ r.finished =>
        /\ Len(r.log) <= Len(check_list)
        /\ \A i \in DOMAIN r.log :
              /\ r.log[i].path = check_list[i].path
              /\ r.log[i].var = check_list[i].var
              /\ r.log[i].actual = r.locals[check_list[i].var]
              /\ r.log[i].raised <=>
                     DecimalMismatch(r, r.log[i]) \/ SignallingExpected(r, r.log[i])
              /\ r.log[i].raised => i = Len(r.log)
        /\ IF r.result.ok
           THEN /\ Len(r.log) = Len(check_list)
                /\ r.log # <<>> => ~r.log[Len(r.log)].raised
           ELSE /\ r.log[Len(r.log)].raised
                /\ r.result.err.type = "ComputeCheckMismatch" =>
                       r.result.err.path = r.log[Len(r.log)].path

\* C8, as the code has it: each pipeline calls the comparator after all
\* its intermediates are computed, in the fixed order of its check
\* statements (grouped by form, not the order of computation); when
\* several intermediates disagree with the expected tree the error
\* reported is that of the first check statement that disagrees (or that
\* meets the signalling not-a-number).
C8_ChecksRunInCheckListOrder ==
    /\ ChecksRunInListOrder(federal_run, federal_check_list)
    /\ ChecksRunInListOrder(ny_run, ny_check_list)

Schedule1Line10Path == <<"federal", "schedule_1", "line_10_additional_income">>

Schedule1Line15Path ==
    <<"federal", "schedule_1", "line_15_deductible_self_employment_tax">>

\* The expected tree disagrees on Schedule 1 lines 10 and 15; line 15 is
\* computed first, and the mismatch reported is line 10's.
C8_Witness ==
    /\ FederalFinished
    /\ federal_run.checks.enabled
    /\ ~federal_run.result.ok
    /\ federal_run.result.err.type = "ComputeCheckMismatch"
    /\ federal_run.result.err.path = Schedule1Line10Path
    /\ NodeAt(federal_run.checks.expected, Schedule1Line15Path, 1).node.kind = "decimal"
    /\ NodeAt(federal_run.checks.expected, Schedule1Line15Path, 1).node.val
           # federal_run.locals.line_15_deductible_se_tax

Position(seq, x) == CHOOSE k \in DOMAIN seq : seq[k] = x

ChecksRunInComputationOrder(r, order) ==
    r.invoked /\ r.finished =>
        \A i, j \in DOMAIN r.log :
            i < j => Position(order, r.log[i].var) <= Position(order, r.log[j].var)

\* C8 as stated: the comparator is called for the intermediates in the
\* order in which they were computed.
C8_ChecksRunInComputationOrder ==
    /\ ChecksRunInComputationOrder(federal_run, federal_compute_order)
    /\ ChecksRunInComputationOrder(ny_run, ny_compute_order)

\* ---------------------------------------------------------------------
\* Properties of the errors
\* ---------------------------------------------------------------------

\* A pipeline that did not reach its check statements ended with the
\* error of a lookup or line function as that function raised it, made no
\* comparator call and returned no total.
PipelineErrorPropagates(r) ==
    r.invoked /\ ~r.finished =>
        /\ ~r.result.ok
        /\ r.log = <<>>
        /\ r.result.err.type \in {"MissingRequiredInput", "NoMatchingBracket"}
        /\ r.result.err.type = "MissingRequiredInput" =>
               /\ BucketOf(LoadedIndex, r.result.err.tag) = <<>>
               /\ r.result = tag_total(LoadedIndex, r.result.err.tag, TRUE, FALSE)

\* C9: an error raised by a tag lookup or line function inside a pipeline
\* reaches the caller unchanged and no total is returned, no comparator
\* call is made in that invocation, and compute_all_taxes returns no
\* partial result when either pipeline fails.
C9_PipelineErrorsPropagate ==
    /\ PipelineErrorPropagates(federal_run)
    /\ PipelineErrorPropagates(ny_run)
    /\ call.op = "compute_federal_total_tax" /\ outcome.done =>
           outcome.result = federal_run.result
    /\ call.op = "compute_ny_total_tax" /\ outcome.done =>
           outcome.result = ny_run.result
    /\ call.op = "compute_all_taxes" /\ outcome.done =>
           IF ~federal_run.result.ok
           THEN outcome.result = federal_run.result /\ ~ny_run.invoked
           ELSE /\ ny_run.invoked
                /\ IF ~ny_run.result.ok
                   THEN outcome.result = ny_run.result
                   ELSE /\ outcome.result.ok
                        /\ outcome.result.val.total =
                               federal_run.result.val + ny_run.result.val

\* compute_all_taxes on a return without the dependents count: the federal
\* pipeline gave its total, the NY pipeline raised, and the caller got the
\* NY error.
C9_Witness ==
    /\ call.op = "compute_all_taxes"
    /\ outcome.done
    /\ federal_run.result.ok
    /\ ny_run.invoked
    /\ ~ny_run.finished
    /\ ny_run.log = <<>>
    /\ outcome.result = Raise(MissingRequiredInput("ny_dependents_count"))

\* The positions, in iteration order, of the facts bearing the tag.
FactsBearing(doc, tag) ==
    {i \in DOMAIN items_iter(doc) : TagCount(items_iter(doc)[i].Tags, tag) > 0}

\* C10: tag_total(index, tag, required=True) fails, naming the tag, exactly
\* when no fact bears the tag; a bucket of zero-amount facts yields 0; with
\* required=False an empty bucket yields 0.
C10_TagTotalRequired ==
    call.op = "tag_total" /\ outcome.done =>
        /\ ~outcome.result.ok <=> (call.required /\ FactsBearing(inputs, call.tag) = {})
        /\ ~outcome.result.ok => outcome.result.err = MissingRequiredInput(call.tag)
        /\ ~call.required /\ FactsBearing(inputs, call.tag) = {} =>
               outcome.result = Ok(0)
        /\ (/\ FactsBearing(inputs, call.tag) # {}
            /\ \A i \in FactsBearing(inputs, call.tag) :
                   items_iter(inputs)[i].Amount = 0) =>
               outcome.result = Ok(0)

\* A required lookup of a tag borne by a single zero-amount fact gave 0.
C10_Witness ==
    /\ call.op = "tag_total"
    /\ call.required
    /\ outcome.done
    /\ FactsBearing(inputs, call.tag) # {}
    /\ \A i \in FactsBearing(inputs, call.tag) : items_iter(inputs)[i].Amount = 0
    /\ outcome.result = Ok(0)

\* ---------------------------------------------------------------------
\* Properties of the required inputs
\* ---------------------------------------------------------------------

\* The tags of the K-1 facts.
K1Tags == {"schedule_se_k1_box_14a_self_employment_earnings",
           "section_179_deduction", "mctmt_base_ordinary_income",
           "mctmt_base_guaranteed_payments"}

\* The loaded return's only K-1 facts are zero-amount facts tagged with
\* K-1 box 14a.
OnlyZeroBox14a ==
    /\ FactsBearing(inputs, "schedule_se_k1_box_14a_self_employment_earnings") # {}
    /\ \A i \in DOMAIN items_iter(inputs) :
           (\E t \in K1Tags : TagCount(items_iter(inputs)[i].Tags, t) > 0) =>
               /\ items_iter(inputs)[i].Amount = 0
               /\ items_iter(inputs)[i].Tags =
                      <<"schedule_se_k1_box_14a_self_employment_earnings">>

\* C11 as stated: for a wages-only return with a zero-amount K-1 box 14a
\* fact and no other K-1 fact, compute_federal_total_tax raises no
\* missing-required-input error and Schedule SE lines 2, 6, 10, 11 and 12
\* are all 0.
C11_ZeroBox14aSatisfiesRequiredLookups ==
    federal_run.invoked /\ OnlyZeroBox14a =>
        /\ federal_run.finished
        /\ federal_run.locals.line_2_sched_c_k1 = 0
        /\ federal_run.locals.line_6_se_earnings = 0
        /\ federal_run.locals.line_10_ss_tax = 0
        /\ federal_run.locals.line_11_medicare = 0
        /\ federal_run.locals.line_12_se_tax = 0

\* ---------------------------------------------------------------------
\* Line functions called directly
\* ---------------------------------------------------------------------

\* The rows of the schedules do not meet in value where they meet in
\* income, the NYC schedule starts at 10 dollars, and the Social Security
\* rate makes wage base x rate an exact half dollar.
StepPolicy == [BasePolicy EXCEPT
    !.self_employment_tax.social_security_rate = Rate(125, 1000),
    !.additional_medicare_tax.rate = Rate(9, 100),
    !.tax_computation_worksheet = [
        min_income |-> Dollars(0),
        sections |-> << Row(Dollars(0), Dollars(60), Rate(20, 100), Dollars(0)),
                        LastRow(Dollars(60), Rate(30, 100), Dollars(2)) >>],
    !.ny_nys_tax_rate_schedule = <<
        NYRow(Dollars(0), Dollars(50), Dollars(0), Rate(4, 100)),
        NYLastRow(Dollars(50), Dollars(5), Rate(6, 100)) >>,
    !.nyc_resident_tax_rate_schedule = <<
        NYRow(Dollars(10), Dollars(50), Dollars(1), Rate(3, 100)),
        NYLastRow(Dollars(50), Dollars(5), Rate(4, 100)) >>]

\* The rows of the schedules overlap and are not listed by ascending min.
OverlapPolicy == [BasePolicy EXCEPT
    !.tax_computation_worksheet = [
        min_income |-> Dollars(0),
        sections |-> << LastRow(Dollars(60), Rate(30, 100), Dollars(2)),
                        Row(Dollars(0), Dollars(60), Rate(20, 100), Dollars(0)) >>],
    !.ny_nys_tax_rate_schedule = <<
        NYRow(Dollars(0), Dollars(50), Dollars(0), Rate(4, 100)),
        NYLastRow(Dollars(40), Dollars(9), Rate(6, 100)) >>,
    !.nyc_resident_tax_rate_schedule = <<
        NYLastRow(Dollars(50), Dollars(5), Rate(4, 100)),
        NYRow(Dollars(0), Dollars(50), Dollars(0), Rate(3, 100)) >>]

\* Every schedule leaves incomes without a row: the worksheet those below
\* 10 and between 30 and 40 dollars, the NYS schedule those between 20 and
\* 30 dollars, the NYC schedule those below 5 and above 20 dollars; the
\* first NYS row holds zero with a base tax.
HolePolicy == [BasePolicy EXCEPT
    !.tax_computation_worksheet = [
        min_income |-> Dollars(0),
        sections |-> << Row(Dollars(10), Dollars(30), Rate(20, 100), Dollars(1)),
                        LastRow(Dollars(40), Rate(30, 100), Dollars(5)) >>],
    !.ny_nys_tax_rate_schedule = <<
        NYRow(Dollars(0), Dollars(20), Dollars(3), Rate(4, 100)),
        NYLastRow(Dollars(30), Dollars(5), Rate(6, 100)) >>,
    !.nyc_resident_tax_rate_schedule = <<
        NYRow(Dollars(5), Dollars(20), Dollars(1), Rate(3, 100)) >>]

LinePolicies == {BasePolicy, TotalWorksheetPolicy, GapPolicy, StepPolicy, OverlapPolicy,
                 HolePolicy}

\* Largest amount, in dollars, passed to a line function called directly.
MaxProbeDollars == 70

\* The amounts passed: every amount of the model's precision between
\* -MaxProbeDollars and MaxProbeDollars.
ProbeAmounts == -Dollars(MaxProbeDollars)..Dollars(MaxProbeDollars)

\* W-2 Medicare wages passed to Form 8959: none, below, at and above the
\* threshold of the policies.
ProbeWages == {0, Dollars(45), Dollars(50) - 1, Dollars(50), Dollars(50) + 1,
               Dollars(55), Dollars(70)}

\* The arguments passed to the qualified dividends worksheet: taxable
\* incomes below, between and above the thresholds of the policies (40 and
\* 150 dollars), qualified dividends and Schedule D lines 15 and 16 of
\* either sign.
WorksheetIncomes ==
    {-Dollars(10), 0, Dollars(30), Dollars(35) + 1, Dollars(45), Dollars(100),
     Dollars(160), Dollars(200)}

WorksheetDividends ==
    {-Dollars(20), 0, Dollars(10), Dollars(25) + HalfDollar, Dollars(60), Dollars(170)}

WorksheetGains == {-Dollars(10), 0, Dollars(15), Dollars(50)}

LineInit ==
    /\ CURRENT_YEAR = 2024
    /\ inputs = BaseInputs
    /\ policy \in LinePolicies
    /\ expected_values = DictNode(<<>>)
    /\ compute_checks = ComputeChecksOff
    /\ stack = <<>>
    /\ call = Call("none", "", "", FALSE, FALSE)
    /\ outcome = Pending
    /\ federal_run = NotRun
    /\ ny_run = NotRun
    /\ earlier = {}
    /\ threads = <<>>

\* A caller applies the tax computation worksheet to an income.
CallTaxComputationWorksheetTax ==
    /\ stack = <<>>
    /\ ~outcome.done
    /\ \E taxable_income \in ProbeAmounts :
          /\ call' = LineCall("federal_form_1040_tax_computation_worksheet_tax",
                              <<taxable_income>>)
          /\ outcome' = Done(federal_form_1040_tax_computation_worksheet_tax(
                                 taxable_income, policy))
    /\ UNCHANGED <<documents, earlier, threads, compute_checks, stack, federal_run, ny_run>>

\* A caller applies the NYS rate schedule to an income.
CallNYSTaxFromRateSchedule ==
    /\ stack = <<>>
    /\ ~outcome.done
    /\ \E line_38_ny_taxable_income \in ProbeAmounts :
          /\ call' = LineCall("ny_it201_statement_2_line_3_tax_from_rate_schedule",
                              <<line_38_ny_taxable_income>>)
          /\ outcome' = Done(ny_it201_statement_2_line_3_tax_from_rate_schedule(
                                 line_38_ny_taxable_income, policy))
    /\ UNCHANGED <<documents, earlier, threads, compute_checks, stack, federal_run, ny_run>>

\* A caller applies the NYC rate schedule to an income.
CallNYCResidentTax ==
    /\ stack = <<>>
    /\ ~outcome.done
    /\ \E line_47_nyc_taxable_income \in ProbeAmounts :
          /\ call' = LineCall("ny_it201_line_47a_nyc_resident_tax",
                              <<line_47_nyc_taxable_income>>)
          /\ outcome' = Done(ny_it201_line_47a_nyc_resident_tax(
                                 line_47_nyc_taxable_income, policy))
    /\ UNCHANGED <<documents, earlier, threads, compute_checks, stack, federal_run, ny_run>>

\* A caller computes Form 8959 line 18 from W-2 Medicare wages and Schedule
\* SE line 6.
CallForm8959Line18 ==
    /\ stack = <<>>
    /\ ~outcome.done
    /\ \E w2_medicare_wages \in ProbeWages, schedule_se_line_6_se_earnings \in ProbeAmounts :
          /\ call' = LineCall("federal_form_8959_line_18_additional_medicare_tax",
                              <<w2_medicare_wages, schedule_se_line_6_se_earnings>>)
          /\ outcome' = Done(Ok(federal_form_8959_line_18_additional_medicare_tax(
                                    w2_medicare_wages, schedule_se_line_6_se_earnings,
                                    policy)))
    /\ UNCHANGED <<documents, earlier, threads, compute_checks, stack, federal_run, ny_run>>

\* A caller computes Schedule SE line 10 from Schedule SE line 6.
CallScheduleSELine10 ==
    /\ stack = <<>>
    /\ ~outcome.done
    /\ \E line_6_self_employment_earnings \in ProbeAmounts :
          /\ call' = LineCall("federal_schedule_se_line_10_social_security_tax",
                              <<line_6_self_employment_earnings>>)
          /\ outcome' = Done(Ok(federal_schedule_se_line_10_social_security_tax(
                                    line_6_self_employment_earnings, policy)))
    /\ UNCHANGED <<documents, earlier, threads, compute_checks, stack, federal_run, ny_run>>

\* A caller computes line 25 of the qualified dividends and capital gain
\* worksheet.
CallWorksheetLine25 ==
    /\ stack = <<>>
    /\ ~outcome.done
    /\ \E line_1_taxable_income \in WorksheetIncomes,
          line_2_qualified_dividends \in WorksheetDividends,
          schedule_d_line_15 \in WorksheetGains, schedule_d_line_16 \in WorksheetGains :
          /\ call' = LineCall(
                 "federal_form_1040_qualified_dividends_capital_gain_worksheet_line_25",
                 <<line_1_taxable_income, line_2_qualified_dividends,
                   schedule_d_line_15, schedule_d_line_16>>)
          /\ outcome' = Done(
                 federal_form_1040_qualified_dividends_capital_gain_worksheet_line_25(
                     line_1_taxable_income, line_2_qualified_dividends,
                     schedule_d_line_15, schedule_d_line_16, policy))
    /\ UNCHANGED <<documents, earlier, threads, compute_checks, stack, federal_run, ny_run>>

\* A caller rounds an amount to dollars.
CallRoundToDollars ==
    /\ stack = <<>>
    /\ ~outcome.done
    /\ \E amount \in ProbeAmounts :
          /\ call' = LineCall("round_to_dollars", <<amount>>)
          /\ outcome' = Done(Ok(round_to_dollars(amount)))
    /\ UNCHANGED <<documents, earlier, threads, compute_checks, stack, federal_run, ny_run>>

LineNext ==
    \/ NextCall
    \/ CallRoundToDollars
    \/ CallScheduleSELine10
    \/ CallForm8959Line18
    \/ CallTaxComputationWorksheetTax
    \/ CallNYSTaxFromRateSchedule
    \/ CallNYCResidentTax
    \/ CallWorksheetLine25

LineSpec == LineInit /\ [][LineNext]_vars

\* ---------------------------------------------------------------------
\* Properties of the rate-schedule lookups
\* ---------------------------------------------------------------------

\* The last call applied a rate-schedule lookup.
ScheduleLookups == {"federal_form_1040_tax_computation_worksheet_tax",
                    "ny_it201_statement_2_line_3_tax_from_rate_schedule",
                    "ny_it201_line_47a_nyc_resident_tax"}

\* The rows the lookup of the last call went through.
LookupRows ==
    CASE call.op = "federal_form_1040_tax_computation_worksheet_tax" ->
             policy.tax_computation_worksheet.sections
      [] call.op = "ny_it201_statement_2_line_3_tax_from_rate_schedule" ->
             policy.ny_nys_tax_rate_schedule
      [] OTHER -> policy.nyc_resident_tax_rate_schedule

\* The income the rows were compared with: the NY lookups raise a negative
\* income to zero first.
LookupIncome ==
    IF call.op = "federal_form_1040_tax_computation_worksheet_tax"
    THEN call.args[1]
    ELSE Max2(call.args[1], 0)

\* The income lies in the row's range, both ends included.
InRow(row, income) == income >= row.min /\ (row.no_max \/ income <= row.max)

\* The rows whose range holds the income.
RowsHolding(rows, income) == {i \in DOMAIN rows : InRow(rows[i], income)}

\* The tax by one row's parameters: income x rate - subtract_amount for the
\* worksheet, base_tax + (income - min) x rate for the NY schedules,
\* rounded to dollars.
TaxByRow(row, income) ==
    IF call.op = "federal_form_1040_tax_computation_worksheet_tax"
    THEN Units * RoundHalfUp(income * row.rate.num - row.subtract_amount * row.rate.den,
                             row.rate.den * Units)
    ELSE Units * RoundHalfUp(row.base_tax * row.rate.den
                             + (income - row.min) * row.rate.num,
                             row.rate.den * Units)

\* The worksheet's own minimum excludes the income.
BelowWorksheetMinimum ==
    /\ call.op = "federal_form_1040_tax_computation_worksheet_tax"
    /\ call.args[1] < policy.tax_computation_worksheet.min_income

\* The rows are listed by ascending min, each row's max is the next row's
\* min, the first starts at zero and the last has no max.
ContiguousFromZero(rows) ==
    /\ rows # <<>>
    /\ rows[1].min = 0
    /\ rows[Len(rows)].no_max
    /\ \A i \in 1..(Len(rows) - 1) :
           ~rows[i].no_max /\ rows[i].max = rows[i + 1].min

\* C12: in each rate-schedule lookup the rows are tried in list order and
\* the first row with min <= income <= max (max null = unbounded) is
\* applied; for a contiguous schedule covering all non-negative incomes
\* every non-negative income resolves to a row, and an income equal to the
\* boundary shared by rows N and N+1 is taxed with row N's parameters.
C12_FirstMatchingRowApplies ==
    call.op \in ScheduleLookups /\ outcome.done =>
        LET rows == LookupRows
            income == LookupIncome
            holding == RowsHolding(rows, income)
            first == CHOOSE i \in holding : \A j \in holding : i <= j
        IN /\ (holding # {} /\ ~BelowWorksheetMinimum) =>
                  outcome.result = Ok(TaxByRow(rows[first], income))
           /\ (ContiguousFromZero(rows) /\ call.args[1] >= 0
                   /\ ~BelowWorksheetMinimum) =>
                  outcome.result.ok
           /\ \A n \in 1..(Len(rows) - 1) :
                  (/\ ContiguousFromZero(rows)
                   /\ ~BelowWorksheetMinimum
                   /\ income = rows[n].max) =>
                      outcome.result = Ok(TaxByRow(rows[n], income))

\* A lookup at the boundary shared by two rows of a contiguous schedule
\* whose parameters give different taxes there: the lower row's tax was
\* returned.
C12_Witness ==
    /\ call.op \in ScheduleLookups
    /\ outcome.done
    /\ ContiguousFromZero(LookupRows)
    /\ \E n \in 1..(Len(LookupRows) - 1) :
           /\ LookupIncome = LookupRows[n].max
           /\ TaxByRow(LookupRows[n], LookupIncome)
                  # TaxByRow(LookupRows[n + 1], LookupIncome)
           /\ outcome.result = Ok(TaxByRow(LookupRows[n], LookupIncome))

\* The income as passed is below the schedule's minimum or outside every
\* row's range.
PassedIncomeOutsideEveryRow ==
    BelowWorksheetMinimum \/ RowsHolding(LookupRows, call.args[1]) = {}

\* The lookup of the last call ended with a no-matching-row error.
LookupRaised ==
    /\ ~outcome.result.ok
    /\ outcome.result.err.type = "NoMatchingBracket"

\* C13 (as stated): every rate-schedule lookup fails with a no-matching-row
\* error, and returns no tax, whenever the income passed to it is below the
\* schedule's minimum or outside every row's range, a negative income
\* passed to the NYS and NYC lookups included.
C13_IncomeOutsideEveryRowRaises ==
    (call.op \in ScheduleLookups /\ outcome.done /\ PassedIncomeOutsideEveryRow)
        => LookupRaised

\* C13 (amended): the federal worksheet raises exactly when the income
\* passed is below min_income or in no row; the NYS and NYC lookups raise
\* exactly when no row holds max(income, 0), so a negative income gives
\* what income zero gives: the tax of the first row holding zero, or the
\* error when no row holds zero. The error carries the income compared.
C13_RaisesExactlyWhenNoRowHoldsComparedIncome ==
    call.op \in ScheduleLookups /\ outcome.done =>
        LET unmatched == BelowWorksheetMinimum
                             \/ RowsHolding(LookupRows, LookupIncome) = {}
        IN /\ unmatched <=> ~outcome.result.ok
           /\ unmatched =>
                  /\ LookupRaised
                  /\ outcome.result.err.income = LookupIncome
           /\ (call.op = "ny_it201_statement_2_line_3_tax_from_rate_schedule"
                   /\ call.args[1] < 0) =>
                  outcome.result
                      = ny_it201_statement_2_line_3_tax_from_rate_schedule(0, policy)
           /\ (call.op = "ny_it201_line_47a_nyc_resident_tax"
                   /\ call.args[1] < 0) =>
                  outcome.result = ny_it201_line_47a_nyc_resident_tax(0, policy)

\* A negative income was passed to an NY lookup whose schedule holds zero:
\* the lookup returned the tax of income zero, a positive amount.
C13_Witness ==
    /\ call.op \in ScheduleLookups
    /\ call.op # "federal_form_1040_tax_computation_worksheet_tax"
    /\ outcome.done
    /\ call.args[1] < 0
    /\ PassedIncomeOutsideEveryRow
    /\ outcome.result.ok
    /\ outcome.result.val > 0

\* ---------------------------------------------------------------------
\* Properties of Form 8959
\* ---------------------------------------------------------------------

\* The last call computed Form 8959 line 18.
Form8959Called ==
    call.op = "federal_form_8959_line_18_additional_medicare_tax" /\ outcome.done

\* round_to_dollars(amount x additional_medicare_tax.rate)
AdditionalMedicareTaxOn(amount) ==
    Units * RoundHalfUp(amount * policy.additional_medicare_tax.rate.num,
                        policy.additional_medicare_tax.rate.den * Units)

\* C14 (as stated): when the W-2 Medicare wages alone exceed the threshold,
\* the Part II portion is zero for every Schedule SE line 6 amount, so line
\* 18 is only the rounded W-2 excess over the threshold times the rate.
C14_NoSETaxWhenWagesExceedThreshold ==
    (Form8959Called /\ call.args[1] > policy.additional_medicare_tax.threshold) =>
        outcome.result
            = Ok(AdditionalMedicareTaxOn(
                     call.args[1] - policy.additional_medicare_tax.threshold))

\* C14 (amended): when the W-2 Medicare wages reach or exceed the threshold
\* nothing of the threshold remains, so Part II is the rate applied to the
\* whole of a positive Schedule SE line 6 (zero for a line 6 that is not
\* positive), and line 18 is the rounded W-2 excess times the rate plus the
\* rounded line 6 times the rate.
C14_SEEarningsTaxedInFullWhenWagesExceedThreshold ==
    (Form8959Called /\ call.args[1] >= policy.additional_medicare_tax.threshold) =>
        outcome.result
            = Ok(AdditionalMedicareTaxOn(
                     call.args[1] - policy.additional_medicare_tax.threshold)
                 + AdditionalMedicareTaxOn(Max2(0, call.args[2])))

\* W-2 wages above the threshold and positive self-employment earnings:
\* line 18 is more than the tax on the W-2 excess, which is positive.
C14_Witness ==
    /\ Form8959Called
    /\ call.args[1] > policy.additional_medicare_tax.threshold
    /\ call.args[2] > 0
    /\ AdditionalMedicareTaxOn(
           call.args[1] - policy.additional_medicare_tax.threshold) > 0
    /\ outcome.result.ok
    /\ outcome.result.val
           > AdditionalMedicareTaxOn(
                 call.args[1] - policy.additional_medicare_tax.threshold)

\* ---------------------------------------------------------------------
\* Properties of Schedule SE line 10
\* ---------------------------------------------------------------------

\* The last call computed Schedule SE line 10.
ScheduleSELine10Called ==
    call.op = "federal_schedule_se_line_10_social_security_tax" /\ outcome.done

\* round_to_dollars(social_security_wage_base x social_security_rate)
RoundedWageBaseTax ==
    Units * RoundHalfUp(policy.self_employment_tax.social_security_wage_base
                            * policy.self_employment_tax.social_security_rate.num,
                        policy.self_employment_tax.social_security_rate.den * Units)

\* line 10 > social_security_wage_base x social_security_rate, compared
\* without rounding.
ExceedsWageBaseTimesRate(line_10) ==
    line_10 * policy.self_employment_tax.social_security_rate.den
        > policy.self_employment_tax.social_security_wage_base
              * policy.self_employment_tax.social_security_rate.num

\* C15 (as stated): for every Schedule SE line 6 and every policy, line 10
\* never exceeds social_security_wage_base x social_security_rate, and
\* raising the earnings above the wage base does not change line 10.
C15_Line10AtMostWageBaseTimesRate ==
    ScheduleSELine10Called =>
        /\ ~ExceedsWageBaseTimesRate(outcome.result.val)
        /\ call.args[1] >= policy.self_employment_tax.social_security_wage_base =>
               outcome.result = Ok(RoundedWageBaseTax)

\* C15 (amended): line 10 never exceeds
\* round_to_dollars(social_security_wage_base x social_security_rate),
\* which is above the product itself when the product rounds up, and
\* earnings at or above the wage base all give exactly that amount.
C15_Line10AtMostRoundedWageBaseTax ==
    ScheduleSELine10Called =>
        /\ outcome.result.ok
        /\ outcome.result.val <= RoundedWageBaseTax
        /\ call.args[1] >= policy.self_employment_tax.social_security_wage_base =>
               outcome.result = Ok(RoundedWageBaseTax)

\* Earnings above the wage base under a policy whose wage base x rate
\* rounds up: line 10 is the rounded amount, above the product.
C15_Witness ==
    /\ ScheduleSELine10Called
    /\ call.args[1] > policy.self_employment_tax.social_security_wage_base
    /\ outcome.result = Ok(RoundedWageBaseTax)
    /\ ExceedsWageBaseTimesRate(outcome.result.val)

\* ---------------------------------------------------------------------
\* Properties of round_to_dollars
\* ---------------------------------------------------------------------

\* The last call rounded an amount to dollars.
RoundToDollarsCalled == call.op = "round_to_dollars" /\ outcome.done

\* The amount lies exactly halfway between two whole numbers of dollars.
ExactHalf(amount) == 2 * (amount % Units) = Units

Abs(n) == IF n < 0 THEN -n ELSE n

\* C19: round_to_dollars(x) is the whole number nearest to x, an exact half
\* is rounded away from zero for positive and for negative x, and
\* rounding the result again gives the result.
C19_RoundToDollarsNearestHalfAwayFromZero ==
    RoundToDollarsCalled =>
        LET x == call.args[1]
            r == outcome.result.val
        IN /\ outcome.result.ok
           /\ r % Units = 0
           /\ 2 * Abs(x - r) <= Units
           /\ ExactHalf(x) => Abs(r) > Abs(x)
           /\ ~ExactHalf(x) => 2 * Abs(x - r) < Units
           /\ round_to_dollars(r) = r

\* A negative exact half was rounded: the result is the whole number
\* below it.
C19_Witness ==
    /\ RoundToDollarsCalled
    /\ call.args[1] < 0
    /\ ExactHalf(call.args[1])
    /\ outcome.result = Ok(call.args[1] - HalfDollar)

\* ---------------------------------------------------------------------
\* Properties of the input index
\* ---------------------------------------------------------------------

\* The facts of an inputs document in the order of the document.
FactsInOrder(doc) ==
    IF doc.form = "dict" THEN ConcatItems(doc.sources) ELSE doc.items

\* The flat list, and a source-keyed mapping, of the given facts in the
\* given order.
AsFlatList(facts) == [form |-> "list", items |-> facts]

AsMapping(facts) ==
    [form |-> "dict", sources |-> << [source |-> "all", items |-> facts] >>]

\* The inputs document with the facts that bear no tag taken out.
InputsWithoutUntagged(doc) ==
    IF doc.form = "dict"
    THEN [doc EXCEPT !.sources =
             [s \in DOMAIN doc.sources |->
                 [doc.sources[s] EXCEPT
                     !.items = SelectSeq(@, LAMBDA fact : fact.Tags # <<>>)]]]
    ELSE [doc EXCEPT !.items = SelectSeq(@, LAMBDA fact : fact.Tags # <<>>)]

HasUntaggedFact ==
    \E i \in DOMAIN FactsInOrder(inputs) : FactsInOrder(inputs)[i].Tags = <<>>

\* The run is the run the pipeline makes on the derived result.
SameRun(run, derived) ==
    IF derived.ok
    THEN run.finished /\ run.locals = derived.val
    ELSE ~run.finished /\ run.result = derived

\* C18: build_inputs_index gives the same tag-to-facts index for a
\* source-keyed mapping and for the flat list of the same facts in the same
\* order; every fact is under each of its tags, in document order, and a
\* fact without tags is under none, so it adds to no tag_total and changes
\* neither pipeline's lines, total or error.
C18_IndexSameForBothFormsUntaggedInvisible ==
    /\ (call.op = "build_inputs_index" /\ outcome.done) =>
           LET index == outcome.result.val
               facts == FactsInOrder(inputs)
           IN /\ index = build_inputs_index(AsFlatList(facts))
              /\ index = build_inputs_index(AsMapping(facts))
              /\ \A i \in DOMAIN facts : \A j \in DOMAIN facts[i].Tags :
                     /\ facts[i].Tags[j] \in DOMAIN index.by_tag
                     /\ index.by_tag[facts[i].Tags[j]]
                            = SelectSeq(facts, LAMBDA fact :
                                  TagCount(fact.Tags, facts[i].Tags[j]) > 0)
              /\ \A tag \in DOMAIN index.by_tag :
                     \A k \in DOMAIN index.by_tag[tag] :
                         TagCount(index.by_tag[tag][k].Tags, tag) > 0
    /\ (call.op = "tag_total" /\ outcome.done) =>
           outcome.result = tag_total(build_inputs_index(InputsWithoutUntagged(inputs)),
                                      call.tag, call.required, call.round_each)
    /\ (HasUntaggedFact /\ federal_run.invoked) =>
           SameRun(federal_run, federal_compute(InputsWithoutUntagged(inputs), policy))
    /\ (HasUntaggedFact /\ ny_run.invoked) =>
           SameRun(ny_run, ny_compute(InputsWithoutUntagged(inputs), policy))

\* The index of a mapping with untagged facts and a tag borne by facts of
\* two sources was built: both facts are under the tag, in document order.
C18_Witness ==
    /\ call.op = "build_inputs_index"
    /\ outcome.done
    /\ inputs.form = "dict"
    /\ HasUntaggedFact
    /\ "section_179_deduction" \in DOMAIN outcome.result.val.by_tag
    /\ outcome.result.val.by_tag["section_179_deduction"]
           = << Fact(Dollars(10), <<"section_179_deduction">>),
                Fact(Dollars(3), <<"section_179_deduction">>) >>

\* ---------------------------------------------------------------------
\* Properties of repeated invocations
\* ---------------------------------------------------------------------

\* What a pipeline gives from the facts and the policy alone: the total of
\* its computed lines, or the error of the statement that raised.
OutcomeOf(computed_lines, total) ==
    IF computed_lines.ok THEN Ok(computed_lines.val[total]) ELSE computed_lines

\* C16: for fixed facts and policy, an invocation of
\* compute_federal_total_tax or compute_ny_total_tax made with compute
\* checks disabled finds the check globals as the module loaded them and
\* gives the outcome the facts and the policy determine, whatever calls
\* came before (calls under enabled checks, mismatches, missing-input and
\* bracket errors): every such invocation gives the same outcome.
C16_SameOutcomeOnEveryInvocation ==
    /\ (call.op = "compute_federal_total_tax" /\ outcome.done) =>
           /\ federal_run.checks = ComputeChecksOff
           /\ outcome.result = OutcomeOf(federal_compute(inputs, policy), "total_tax")
    /\ (call.op = "compute_ny_total_tax" /\ outcome.done) =>
           /\ ny_run.checks = ComputeChecksOff
           /\ outcome.result = OutcomeOf(ny_compute(inputs, policy), "it201_line_62")

\* A pipeline invoked with checks disabled returned its total after
\* earlier calls on the same documents had returned and had raised a
\* mismatch under enabled checks.
C16_Witness ==
    /\ call.op \in {"compute_federal_total_tax", "compute_ny_total_tax"}
    /\ outcome.done
    /\ outcome.result.ok
    /\ {"returned", "ComputeCheckMismatch"} \subseteq earlier

\* ---------------------------------------------------------------------
\* Properties of the pipelines' effects
\* ---------------------------------------------------------------------

\* The step runs a pipeline, to its return or to its raise.
PipelineInvoked ==
    \/ federal_run' # federal_run /\ federal_run'.invoked
    \/ ny_run' # ny_run /\ ny_run'.invoked

ByInputReported ==
    /\ call.op = "marginal_rate_table_by_input"
    /\ outcome.done
    /\ call.args[1] > 0

\* The inputs document with the facts whose Amount does not parse taken out.
InputsWithoutUnparseable(doc) ==
    [doc EXCEPT !.sources =
        [s \in DOMAIN doc.sources |->
            [doc.sources[s] EXCEPT !.items = SelectSeq(@, LAMBDA fact : fact.parses)]]]

\* C20 (as stated): a fact whose Amount cannot be parsed never makes
\* marginal_rate_table_by_input raise: where the table of the other facts
\* alone is computed, the table with the fact is computed too, with one
\* row per fact, blank for the facts that do not parse and with the rates
\* for all the others.
C20_UnparseableFactGivesBlankRow ==
    (/\ ByInputReported
     /\ marginal_rate_table_by_input(InputsWithoutUnparseable(inputs), policy,
                                     call.args[1], compute_checks).ok) =>
        /\ outcome.result.ok
        /\ Len(outcome.result.val) = Len(FactsInOrder(inputs))
        /\ \A k \in DOMAIN outcome.result.val :
               /\ outcome.result.val[k].item = FactsInOrder(inputs)[k]
               /\ outcome.result.val[k].blank = ~FactsInOrder(inputs)[k].parses

\* The reporter was called and has returned its table or raised.
ByInputEnded == call.op = "marginal_rate_table_by_input" /\ outcome.done

\* The copy differs from the caller's document in the Amount of fact k of
\* the iteration order, which is the given amount, and in nothing else.
DiffersOnlyInAmountOf(copy, doc, k, amount) ==
    /\ copy.form = doc.form
    /\ Len(copy.sources) = Len(doc.sources)
    /\ \A s \in DOMAIN doc.sources :
           /\ copy.sources[s].source = doc.sources[s].source
           /\ Len(copy.sources[s].items) = Len(doc.sources[s].items)
    /\ \A j \in DOMAIN FactsInOrder(doc) :
           FactsInOrder(copy)[j] =
               IF j = k
               THEN [FactsInOrder(doc)[j] EXCEPT !.Amount = amount]
               ELSE FactsInOrder(doc)[j]

\* C21: for each fact with a numeric Amount marginal_rate_table_by_input
\* runs the pipelines on two copies of the fact collection that differ
\* from the caller's collection in that fact's Amount only, amount + delta
\* in one and amount - delta in the other; the caller's collection is as
\* it was when the reporter returns and when it raises.
C21_CopiesDifferInOneAmountCallerUnchanged ==
    [][(ByInputEnded' /\ ~ByInputEnded) =>
          /\ inputs' = inputs
          /\ (call'.args[1] > 0 /\ outcome'.result.ok) =>
                 \A k \in DOMAIN outcome'.result.val :
                     LET row == outcome'.result.val[k]
                     IN ~row.blank =>
                           /\ DiffersOnlyInAmountOf(row.plus_inputs, inputs, k,
                                  row.item.Amount + call'.args[1])
                           /\ DiffersOnlyInAmountOf(row.minus_inputs, inputs, k,
                                  row.item.Amount - call'.args[1])]_vars

\* The table of a return with a fact that does not parse, an additional
\* fact and more than one fact in its first source was computed.
C21_Witness ==
    /\ ByInputReported
    /\ outcome.result.ok
    /\ \E k \in DOMAIN outcome.result.val : outcome.result.val[k].blank
    /\ \E k \in DOMAIN outcome.result.val :
           /\ k > 1
           /\ ~outcome.result.val[k].blank
           /\ outcome.result.val[k].source = "adjustments"
           /\ outcome.result.val[k].plus_inputs # outcome.result.val[k].minus_inputs

\* The reporter raised on a return with a fact that does not parse.
C21_WitnessRaised ==
    /\ ByInputReported
    /\ ~outcome.result.ok
    /\ \E k \in DOMAIN FactsInOrder(inputs) : ~FactsInOrder(inputs)[k].parses

\* ---------------------------------------------------------------------
\* Properties of the marginal rate table by tag
\* ---------------------------------------------------------------------

\* The reporter by tag was called with a positive delta and has returned.
ByTagReturned ==
    /\ call.op = "marginal_rate_table_by_tag"
    /\ outcome.done
    /\ call.args[1] > 0
    /\ outcome.result.ok

SourceNames(doc) == {doc.sources[s].source : s \in DOMAIN doc.sources}

\* The copy is the caller's document, every source and fact as it is,
\* followed by one more source, under a name none of the caller's sources
\* has, that holds a single fact of the given amount bearing the tag alone.
AddsOneSyntheticFact(copy, doc, tag, amount) ==
    /\ copy.form = doc.form
    /\ Len(copy.sources) = Len(doc.sources) + 1
    /\ SubSeq(copy.sources, 1, Len(doc.sources)) = doc.sources
    /\ copy.sources[Len(copy.sources)].source \notin SourceNames(doc)
    /\ Len(copy.sources[Len(copy.sources)].items) = 1
    /\ copy.sources[Len(copy.sources)].items[1].Amount = amount
    /\ copy.sources[Len(copy.sources)].items[1].Tags = <<tag>>

\* C22: for each tag with a numeric fact marginal_rate_table_by_tag runs
\* the pipelines on two copies of the inputs that differ from the caller's
\* inputs by one added synthetic fact bearing that tag alone, of amount
\* delta in one copy and -delta in the other, under one source key that
\* names no source already present; every existing source and fact is as
\* it was, so the facts under every other tag are the same in the copies
\* as in the caller's inputs.
C22_ShockIsOneSyntheticSingleTagFact ==
    ByTagReturned =>
        \A k \in DOMAIN outcome.result.val :
            LET row == outcome.result.val[k]
            IN ~row.blank =>
                  /\ AddsOneSyntheticFact(row.plus_inputs, inputs, row.tag, call.args[1])
                  /\ AddsOneSyntheticFact(row.minus_inputs, inputs, row.tag, -call.args[1])
                  /\ SourceNames(row.plus_inputs) = SourceNames(row.minus_inputs)
                  /\ \A tag \in TagsOfItems(items_iter(inputs)) \ {row.tag} :
                        /\ BucketOf(build_inputs_index(row.plus_inputs), tag)
                              = BucketOf(build_inputs_index(inputs), tag)
                        /\ BucketOf(build_inputs_index(row.minus_inputs), tag)
                              = BucketOf(build_inputs_index(inputs), tag)

\* The table of a return that already has the sources '__MARGINAL_SHOCK__'
\* and '__MARGINAL_SHOCK___X' was computed, with a row for a tag borne by
\* a fact that bears another tag too.
C22_Witness ==
    /\ ByTagReturned
    /\ {"__MARGINAL_SHOCK__", "__MARGINAL_SHOCK___X"} \subseteq SourceNames(inputs)
    /\ \E k \in DOMAIN outcome.result.val :
           /\ outcome.result.val[k].tag = "w2_box_5_medicare_wages"
           /\ ~outcome.result.val[k].blank
           /\ "__MARGINAL_SHOCK___X_X" \in SourceNames(outcome.result.val[k].plus_inputs)
           /\ \E f \in DOMAIN FactsInOrder(inputs) :
                  /\ TagCount(FactsInOrder(inputs)[f].Tags, "w2_box_5_medicare_wages") > 0
                  /\ Len(FactsInOrder(inputs)[f].Tags) > 1

\* ---------------------------------------------------------------------
\* Properties of the order of computation
\* ---------------------------------------------------------------------

\* Every statement of the order reads only locals that statements before
\* it assign.
AssignedBeforeRead(order, reads) ==
    \A p \in DOMAIN order : reads[order[p]] \subseteq {order[q] : q \in 1..(p - 1)}

\* Both locals are assigned, the first by an earlier statement.
ComputedBefore(order, first, second) ==
    /\ \E p \in DOMAIN order : order[p] = first
    /\ \E p \in DOMAIN order : order[p] = second
    /\ Position(order, first) < Position(order, second)

\* The run read no local before it was assigned, and every check it made
\* was of a local the computation had assigned.
ReadNoUnassignedLocal(r) ==
    r.invoked =>
        /\ ~r.result.ok => r.result.err.type # "UnboundLocalError"
        /\ r.finished => \A i \in DOMAIN r.log : r.log[i].var \in DOMAIN r.locals

\* C23: in both orchestrators every line value a line function or a check
\* takes has been computed by an earlier statement of the same invocation:
\* Schedule SE line 12 before Schedule 1 line 15, Schedule D line 16
\* before Form 8960 line 5a and Form 1040 line 9, Form 1040 line 11 before
\* line 15 and Form 8960 line 13, and in the NY pipeline federal line 9
\* and Schedule 1 line 26 before IT-201 lines 17 to 19.
C23_LinesComputedBeforeTheyAreUsed ==
    /\ ReadNoUnassignedLocal(federal_run)
    /\ ReadNoUnassignedLocal(ny_run)
    /\ AssignedBeforeRead(federal_compute_order, statement_reads.federal)
    /\ AssignedBeforeRead(ny_compute_order, statement_reads.ny)
    /\ \A i \in DOMAIN federal_check_list :
           \E p \in DOMAIN federal_compute_order :
               federal_compute_order[p] = federal_check_list[i].var
    /\ \A i \in DOMAIN ny_check_list :
           \E p \in DOMAIN ny_compute_order :
               ny_compute_order[p] = ny_check_list[i].var
    /\ ComputedBefore(federal_compute_order, "line_12_se_tax", "line_15_deductible_se_tax")
    /\ ComputedBefore(federal_compute_order, "schedule_d_line_16", "line_5a_net_gain")
    /\ ComputedBefore(federal_compute_order, "schedule_d_line_16", "line_9_total_income")
    /\ ComputedBefore(federal_compute_order, "line_11_agi", "line_15_taxable_income")
    /\ ComputedBefore(federal_compute_order, "line_11_agi", "line_13_modified_agi")
    /\ \A line \in {"it201_line_17", "it201_line_18", "it201_line_19"} :
           /\ ComputedBefore(ny_compute_order, "line_9_total_income", line)
           /\ ComputedBefore(ny_compute_order, "line_26_adjustments", line)

\* Both pipelines ran to the end of their checks on one return, with
\* self-employment tax, a deduction for it and a federal AGI on it.
C23_Witness ==
    /\ federal_run.invoked /\ federal_run.finished /\ federal_run.result.ok
    /\ ny_run.invoked /\ ny_run.finished /\ ny_run.result.ok
    /\ Len(federal_run.log) = Len(federal_check_list)
    /\ Len(ny_run.log) = Len(ny_check_list)
    /\ federal_run.locals.line_12_se_tax > 0
    /\ federal_run.locals.line_15_deductible_se_tax > 0
    /\ ny_run.locals.it201_line_19 > 0

\* ---------------------------------------------------------------------
\* Properties of overlapping harness invocations
\* ---------------------------------------------------------------------

\* The globals as the thread's own enable sets them.
OwnMode(t) ==
    set_compute_checks_mode(TRUE, threads[t].fixture.expected_values,
                            SomeContext(ToString(threads[t].fixture.year)))

\* The check statements at which the thread's own expected document holds
\* a number other than the line the thread computes.
RealMismatches(t) ==
    LET computed_lines == federal_compute(threads[t].fixture.inputs,
                                          threads[t].fixture.policy)
    IN {k \in DOMAIN federal_check_list :
           LET at == NodeAt(threads[t].fixture.expected_values,
                            federal_check_list[k].path, 1)
           IN /\ computed_lines.ok
              /\ at.found
              /\ at.node.kind = "decimal"
              /\ at.node.val # computed_lines.val[federal_check_list[k].var]}

\* What the thread's call gives when no other call runs: the error of the
\* computation, the mismatch of the first check statement that disagrees
\* with the thread's own expected document, under the thread's own
\* context, or the total.
AloneResult(t) ==
    LET computed_lines == federal_compute(threads[t].fixture.inputs,
                                          threads[t].fixture.policy)
        first == CHOOSE k \in RealMismatches(t) : \A j \in RealMismatches(t) : k <= j
    IN IF ~computed_lines.ok THEN computed_lines
       ELSE IF RealMismatches(t) = {} THEN Ok(computed_lines.val.total_tax)
       ELSE Raise(ComputeCheckMismatch(
                ToString(threads[t].fixture.year), federal_check_list[first].path,
                NodeAt(threads[t].fixture.expected_values,
                       federal_check_list[first].path, 1).node.val,
                computed_lines.val[federal_check_list[first].var]))

\* C24: when the other invocation's enable or disable falls between an
\* invocation's enable and one of its comparisons, that comparison runs
\* with checks disabled or against the other invocation's expected tree,
\* and a mismatch it raises bears the other's context or none; an
\* invocation not crossed in this way gives what it gives alone: the
\* mismatch against its own expected tree under its own context, or its
\* total.
C24_OverlapReadsOtherModeSequentialReadsOwn ==
    \A t \in DOMAIN threads :
        LET other == CHOOSE u \in DOMAIN threads : u # t
        IN /\ threads[t].seen_crossed =>
                 \/ threads[t].seen = ComputeChecksOff
                 \/ threads[t].seen = OwnMode(other)
           /\ (/\ threads[t].seen_crossed
               /\ threads[t].pc \in {"finally", "done"}
               /\ ~threads[t].result.ok) =>
                 threads[t].result.err.prefix
                     \in {"", ToString(threads[other].fixture.year)}
           /\ (threads[t].pc = "done" /\ ~threads[t].crossed) =>
                 threads[t].result = AloneResult(t)

\* Both invocations have ended: A returned its total although its own
\* expected document disagrees with it, and B raised a mismatch although
\* its own expected document agrees with every line it computed.
C24_Witness ==
    /\ DOMAIN threads = {"A", "B"}
    /\ threads["A"].pc = "done" /\ threads["B"].pc = "done"
    /\ RealMismatches("A") # {} /\ threads["A"].result.ok
    /\ RealMismatches("B") = {} /\ ~threads["B"].result.ok
    /\ threads["B"].result.err.type = "ComputeCheckMismatch"

\* An invocation that was not crossed has ended with the mismatch against
\* its own expected document.
C24_WitnessSequential ==
    /\ DOMAIN threads = {"A", "B"}
    /\ threads["A"].pc = "done" /\ ~threads["A"].crossed
    /\ threads["B"].pc = "done" /\ ~threads["B"].crossed
    /\ ~threads["A"].result.ok

\* ---------------------------------------------------------------------
\* Properties of enabled checks
\* ---------------------------------------------------------------------

\* The run under its compute-check globals ended as the same call with
\* checks disabled ends, with the same lines computed, or raised a
\* mismatch where that call returns its total.
ChecksOnlyAddMismatch(r, disabled) ==
    r.invoked =>
        /\ r.finished = disabled.finished
        /\ r.locals = disabled.locals
        /\ \/ r.result = disabled.result
           \/ /\ r.checks.enabled
              /\ disabled.result.ok
              /\ ~r.result.ok
              /\ r.result.err.type = "ComputeCheckMismatch"

\* C25 as stated: enabling compute checks does not change what a pipeline
\* computes: with checks enabled compute_federal_total_tax and
\* compute_ny_total_tax raise a mismatch or return the total they return
\* with checks disabled, and a missing input or a schedule without a
\* matching row raises the same error as with checks disabled. An expected
\* document holding 'sNaN' at a checked path refutes it: the call raises
\* decimal.InvalidOperation where the call with checks disabled returns.
C25_EnabledChecksOnlyAddMismatch ==
    /\ ChecksOnlyAddMismatch(federal_run,
           compute_federal_total_tax(inputs, policy, ComputeChecksOff))
    /\ ChecksOnlyAddMismatch(ny_run,
           compute_ny_total_tax(inputs, policy, ComputeChecksOff))

\* ---------------------------------------------------------------------
\* Properties of the federal adjusted gross income of the NY pipeline
\* ---------------------------------------------------------------------

\* The statements of compute_federal_total_tax up to the assignment of
\* line 11, on the loaded documents.
FederalThroughLine11 ==
    federal_statements(1, Position(federal_compute_order, "line_11_agi"),
                       LoadedIndex, policy, Ok(<<>>))

\* C26: compute_ny_total_tax does not read the Form 1040 line 11 override
\* tag: IT-201 line 19 is Form 1040 line 9 less Schedule 1 line 26, both
\* derived as the federal pipeline derives them, whatever facts bear the
\* tag; it equals the federal pipeline's line 11 exactly when the override
\* total is zero or rounds to the derived amount.
C26_NYLine19IsDerivedAGI ==
    ny_run.invoked /\ ny_run.finished =>
        LET ny == ny_run.locals
            derived == ny.line_9_total_income - ny.line_26_adjustments
            federal == FederalThroughLine11
            untagged == InputsWithoutTag(inputs, "form_1040_line_11_adjusted_gross_income")
        IN /\ ny.it201_line_19 = derived
           /\ ny_compute(untagged, policy) = Ok(ny)
           /\ federal.ok
           /\ federal.val.line_9_total_income = ny.line_9_total_income
           /\ federal.val.line_26_adjustments = ny.line_26_adjustments
           /\ ny.it201_line_19 = federal.val.line_11_agi
                  <=> \/ AGIOverride = 0
                      \/ round_to_dollars(AGIOverride) = derived

\* The NY pipeline ran on a return whose override total is not zero and
\* rounds to another amount than the derived one: line 19 is the derived
\* amount and differs from the federal line 11.
C26_Witness ==
    /\ ny_run.invoked /\ ny_run.finished
    /\ AGIOverride # 0
    /\ ny_run.locals.line_26_adjustments # 0
    /\ ny_run.locals.it201_line_19 =
           ny_run.locals.line_9_total_income - ny_run.locals.line_26_adjustments
    /\ FederalThroughLine11.val.line_11_agi = round_to_dollars(AGIOverride)
    /\ FederalThroughLine11.val.line_11_agi # ny_run.locals.it201_line_19

\* The override total is not a whole number of dollars and rounds to the
\* derived amount: the two lines are equal.
C26_WitnessRoundsToDerived ==
    /\ ny_run.invoked /\ ny_run.finished
    /\ AGIOverride # 0
    /\ AGIOverride # round_to_dollars(AGIOverride)
    /\ FederalThroughLine11.val.line_11_agi = ny_run.locals.it201_line_19

\* ---------------------------------------------------------------------
\* Properties of the qualified dividends worksheet in the federal pipeline
\* ---------------------------------------------------------------------

\* The statements of compute_federal_total_tax before the assignment of
\* worksheet_line_25, on the loaded documents.
FederalBeforeWorksheet ==
    federal_statements(1, Position(federal_compute_order, "worksheet_line_25") - 1,
                       LoadedIndex, policy, Ok(<<>>))

\* Worksheet line 5 of the loaded documents, when the statements before
\* the worksheet raise nothing.
WorksheetLine5 ==
    LET e == FederalBeforeWorksheet.val
    IN qualified_dividends_capital_gain_worksheet_lines_3_to_5(
           e.line_15_taxable_income, e.line_3a_qualified_dividends,
           e.schedule_d_line_15, e.schedule_d_line_16).line_5

\* C27: compute_federal_total_tax applies the tax computation worksheet to
\* worksheet line 5: whenever the pipeline reaches the worksheet with line
\* 5 below tax_computation_worksheet.min_income the call ends with the
\* worksheet's below-minimum error for line 5, also when the taxable
\* income is at or above min_income and when a line 16 override is given.
C27_WorksheetOnLine5BelowMinimumRaises ==
    federal_run.invoked /\ FederalBeforeWorksheet.ok
    /\ WorksheetLine5 < policy.tax_computation_worksheet.min_income =>
        /\ ~federal_run.finished
        /\ federal_run.result =
               Raise(NoMatchingBracket("tax_computation_worksheet_min_income",
                                       WorksheetLine5))

\* The taxable income is at or above min_income, line 5 is below it, and
\* the run ended with the below-minimum error for line 5.
C27_Witness ==
    /\ federal_run.invoked
    /\ FederalBeforeWorksheet.ok
    /\ FederalBeforeWorksheet.val.line_15_taxable_income
           >= policy.tax_computation_worksheet.min_income
    /\ WorksheetLine5 > 0
    /\ WorksheetLine5 < policy.tax_computation_worksheet.min_income
    /\ ~federal_run.result.ok
    /\ federal_run.result.err.type = "NoMatchingBracket"

\* The same with a non-zero line 16 override, which would replace the
\* worksheet's result.
C27_WitnessLine16Override ==
    /\ C27_Witness
    /\ tag_sum(LoadedIndex, "form_1040_line_16_tax") # 0

\* ---------------------------------------------------------------------
\* Properties of the qualified dividends and capital gain worksheet
\* ---------------------------------------------------------------------

WorksheetLine25Called ==
    /\ call.op = "federal_form_1040_qualified_dividends_capital_gain_worksheet_line_25"
    /\ outcome.done

\* Lines 3 to 5 and 7 to 21 of the call made.
CalledLines3To5 ==
    qualified_dividends_capital_gain_worksheet_lines_3_to_5(
        call.args[1], call.args[2], call.args[3], call.args[4])

CalledLines7To21 ==
    qualified_dividends_capital_gain_worksheet_lines_7_to_21(
        call.args[1], CalledLines3To5.line_4, CalledLines3To5.line_5, policy)

\* C28: in the worksheet of line 25, for a taxable income and a line 4 that
\* are not negative, the amounts of the 0%, 15% and 20% brackets (lines 9,
\* 17 and 20) are not negative and add up to line 10, the smaller of the
\* taxable income and line 4; the line 25 returned is at most the
\* worksheet tax on the full taxable income (line 24).
C28_BracketAmountsPartitionLine10 ==
    WorksheetLine25Called /\ outcome.result.ok =>
        LET l == CalledLines7To21
            line_24 == federal_form_1040_tax_computation_worksheet_tax(call.args[1], policy)
        IN /\ outcome.result.val <= line_24.val
           /\ call.args[1] >= 0 /\ CalledLines3To5.line_4 >= 0 =>
                  /\ l.line_9 >= 0 /\ l.line_17 >= 0 /\ l.line_20 >= 0
                  /\ l.line_10 = Min2(call.args[1], CalledLines3To5.line_4)
                  /\ l.line_9 + l.line_17 + l.line_20 = l.line_10

\* A call whose line 10 is spread over the three brackets, and whose line
\* 25 is below line 24.
C28_Witness ==
    /\ WorksheetLine25Called /\ outcome.result.ok
    /\ call.args[1] >= 0 /\ CalledLines3To5.line_4 >= 0
    /\ CalledLines7To21.line_9 > 0
    /\ CalledLines7To21.line_17 > 0
    /\ CalledLines7To21.line_20 > 0
    /\ outcome.result.val
           < federal_form_1040_tax_computation_worksheet_tax(call.args[1], policy).val

\* ---------------------------------------------------------------------
\* Properties of Schedule SE without a profit
\* ---------------------------------------------------------------------

C29_WitnessNegativeTotal ==
    /\ FederalFinished
    /\ federal_run.locals.line_12_se_tax < 0
    /\ federal_run.result.ok
    /\ federal_run.result.val < 0

\* ---------------------------------------------------------------------
\* Properties of the NY credits
\* ---------------------------------------------------------------------

\* C30: whenever compute_ny_total_tax computes its lines, the resident
\* credit (IT-112-R line 34) is at most IT-201 line 39 and the NYC UBT
\* credit (IT-219 line 16) at most line 49, so the NYS tax after credits
\* (line 44) and the NYC tax after credits (line 54) are not negative,
\* whatever the other-state income and tax and the UBT credit are.
C30_NYTaxesAfterCreditsNotNegative ==
    ny_run.invoked /\ ny_run.finished =>
        LET e == ny_run.locals
        IN /\ e.it112r_line_34 <= e.it201_line_39
           /\ e.it219_line_16 <= e.it201_line_49
           /\ e.it201_line_44 = e.it201_line_39 - e.it112r_line_34
           /\ e.it201_line_54 = e.it201_line_49 - e.it219_line_16
           /\ e.it201_line_44 >= 0
           /\ e.it201_line_54 >= 0

\* The other-state tax and the ratio amount both exceed the NYS tax, and
\* the UBT credit exceeds the NYC tax: both credits are cut to the tax and
\* both taxes after credits are zero.
C30_Witness ==
    /\ ny_run.invoked /\ ny_run.finished
    /\ ny_run.locals.it201_line_39 > 0
    /\ ny_run.locals.it112r_line_24 > ny_run.locals.it201_line_39
    /\ ny_run.locals.it112r_line_27 > ny_run.locals.it201_line_39
    /\ ny_run.locals.it201_line_44 = 0
    /\ ny_run.locals.it201_line_49 > 0
    /\ ny_run.locals.it219_line_11 > ny_run.locals.it201_line_49
    /\ ny_run.locals.it201_line_54 = 0

\* Negative credits: the taxes after credits exceed the taxes.
C30_WitnessNegativeCredits ==
    /\ ny_run.invoked /\ ny_run.finished
    /\ ny_run.locals.it112r_line_34 < 0
    /\ ny_run.locals.it219_line_16 < 0
    /\ ny_run.locals.it201_line_44 > ny_run.locals.it201_line_39
    /\ ny_run.locals.it201_line_54 > ny_run.locals.it201_line_49

====
